---- MODULE Spec2Model ----
(***************************************************************************)
(* Decision pipeline of the fabrication advisor: the Clamp Engine          *)
(* (server/app/rules.py), the Suggestion Composer                          *)
(* (server/rules/suggest.py) and the prediction builder                    *)
(* (server/app/ml/pipeline.py).                                            *)
(*                                                                         *)
(* Numbers are decimal fixed point: an integer n stands for n / 100000.    *)
(* A Python value is a record [k, n]: k is "float", "int", "str" or        *)
(* "none", n the scaled number (0 when k is not numeric).                  *)
(***************************************************************************)
EXTENDS Integers, Sequences, FiniteSets, TLC

VARIABLES
    op,           \* the operation the request has run last
    machine,      \* the MachineProfile of the request
    experience,   \* the experience tier of the request
    material,     \* meta.material, upper-cased
    parameters,   \* the parameters map handed to clamp_to_machine
    applied,      \* the result of clamp_to_machine
    reapplied,    \* the result of clamping applied.parameters again
    predictions,  \* the predictions handed to plan / suggest
    planned,      \* the outcome of plan
    probs,        \* the classifier's probability vector
    labels,       \* the classifier's label tuple
    built,        \* the outcome of _build_predictions
    artifact,     \* the file at settings.LINEAR_MODEL_PATH
    singleton,    \* _PIPELINE_SINGLETON: 0 is None, else a pipeline's identity
    constructed,  \* the number of DiagnosticPipeline objects constructed
    cache,        \* the lru_cache entry of _load: 0 is empty, else a load's identity
    loads,        \* the number of times the body of _load has run
    pc,           \* each thread's position in predict_image
    held,         \* each thread's local pipeline reference
    loaded,       \* the value _load returned to each thread
    error,        \* the exception each thread's call ended with
    calls,        \* the number of calls each thread has finished
    activation,   \* the activation map handed to _build_boxes
    ranked,       \* the predictions handed to _build_boxes
    boxes,        \* the boxes _build_boxes returned
    plan_issue,   \* the issue handed to _build_plan
    plan_result,  \* the outcome of _build_plan, with base_targets kept
    analysis,     \* the ImageAnalysisResult of predict_image
    issue_parts,  \* the fragments of the issue id handed to _handler_for_issue
    selected,     \* the handler _handler_for_issue returned
    env,          \* INFERENCE_MODE, the optional packages and the model file
    engine,       \* the InferenceEngine services.py constructed
    backend,      \* the backend InferenceEngine.predict served from
    classifier,   \* the outcome of _resolve_classifier
    route_pc,     \* the position of analyze_image_route
    tmp_path,     \* TRUE once tmp_path is not None
    tmp_file,     \* the temporary upload file in UPLOAD_DIR
    pending,      \* the exception the try block of the route ended with
    unlinked,     \* how tmp_path.unlink() ended
    clamped,      \* TRUE once the route has called clamp_to_machine
    outcome       \* the outcome of the route

requestVars == <<machine, experience, material, parameters, applied, reapplied,
                 predictions, planned, probs, labels, built>>

serveVars == <<artifact, singleton, constructed, cache, loads, pc, held,
               loaded, error, calls>>

pipelineVars == <<activation, ranked, boxes, plan_issue, plan_result, analysis>>

backendVars == <<env, engine, backend, classifier>>

routeVars == <<route_pc, tmp_path, tmp_file, pending, unlinked, clamped,
               outcome>>

stageVars == <<issue_parts, selected, backendVars, routeVars>>

vars == <<op, requestVars, serveVars, pipelineVars, stageVars>>

----------------------------------------------------------------------------
(* Bounds of the model *)

MaxParams == 2
MaxParts == 2
MaxPredictions == 2
MaxLabels == 6
MaxThreads == 2
MaxCalls == 2
MaxSide == 20
MaxRanked == 4

----------------------------------------------------------------------------
(* Python values *)

Whole(n) == n * 100000
Milli(n) == n * 100

PyFloat(n) == [k |-> "float", n |-> n]
PyInt(n) == [k |-> "int", n |-> n]
PyStr == [k |-> "str", n |-> 0]
PyNone == [k |-> "none", n |-> 0]

IsNumber(v) == v.k \in {"int", "float"}

\* x * (pct / 100) on scaled numbers, without overflowing 32 bits
MulPct(x, pct) == (x \div 100) * pct + ((x % 100) * pct) \div 100

\* round(x, 3): nearest multiple of 0.001, ties to even
Round3(x) ==
    LET q == x \div 100
        r == x % 100
    IN  IF r < 50 THEN q * 100
        ELSE IF r > 50 THEN (q + 1) * 100
        ELSE IF q % 2 = 0 THEN q * 100 ELSE (q + 1) * 100

ToFloat(value) == IF IsNumber(value) THEN PyFloat(value.n) ELSE PyNone

SetMin(S) == CHOOSE x \in S : \A y \in S : x <= y

----------------------------------------------------------------------------
(* Machine profiles (MachineProfile = Dict[str, object]); an absent key    *)
(* is PyNone, an absent list the empty sequence.                           *)

NoPreset == [nozzle_c |-> <<>>, bed_c |-> <<>>, fan_pct |-> <<>>]
NoRanges == [print |-> <<>>, travel |-> <<>>, accel |-> <<>>, jerk |-> <<>>]
NoSupports == [ams |-> FALSE, input_shaping |-> FALSE, idex |-> FALSE]

BaseMachine ==
    [type |-> "FDM", motion_system |-> "CoreXY", enclosed |-> FALSE,
     material_presets |-> [m \in {} |-> NoPreset],
     supports |-> NoSupports,
     safe_speed_ranges |-> NoRanges,
     max_nozzle_temp_c |-> PyNone, max_bed_temp_c |-> PyNone,
     spindle_rpm_range |-> <<>>, max_feed_mm_min |-> PyNone,
     rigidity_class |-> "none"]

\* the machine of the scenario: max nozzle 300, safe print range [10, 250]
CoreXYMachine ==
    [BaseMachine EXCEPT
     !.enclosed = TRUE,
     !.material_presets =
        [m \in {"PLA", "ABS"} |->
            IF m = "PLA"
            THEN [nozzle_c |-> <<PyInt(Whole(190)), PyInt(Whole(220))>>,
                  bed_c |-> <<PyInt(Whole(50)), PyInt(Whole(65))>>,
                  fan_pct |-> <<PyInt(Whole(60)), PyInt(Whole(100))>>]
            ELSE [nozzle_c |-> <<PyInt(Whole(230)), PyInt(Whole(250))>>,
                  bed_c |-> <<PyInt(Whole(90)), PyInt(Whole(105))>>,
                  fan_pct |-> <<PyInt(Whole(0)), PyInt(Whole(20))>>]],
     !.supports = [ams |-> TRUE, input_shaping |-> TRUE, idex |-> FALSE],
     !.safe_speed_ranges =
        [print |-> <<PyInt(Whole(10)), PyInt(Whole(250))>>,
         travel |-> <<PyInt(Whole(20)), PyInt(Whole(300))>>,
         accel |-> <<PyInt(Whole(500)), PyInt(Whole(10000))>>,
         jerk |-> <<PyInt(Whole(1)), PyInt(Whole(20))>>],
     !.max_nozzle_temp_c = PyInt(Whole(300)),
     !.max_bed_temp_c = PyInt(Whole(110))]

\* a low-temperature bed slinger: max nozzle 220 with a PLA preset [190, 220]
BowdenMachine ==
    [BaseMachine EXCEPT
     !.motion_system = "BedSlinger Bowden",
     !.material_presets =
        [m \in {"PLA"} |->
            [nozzle_c |-> <<PyInt(Whole(190)), PyInt(Whole(220))>>,
             bed_c |-> <<PyInt(Whole(55)), PyInt(Whole(60))>>,
             fan_pct |-> <<>>]],
     !.safe_speed_ranges =
        [NoRanges EXCEPT
         !.print = <<PyFloat(Whole(10)), PyFloat(Milli(120001))>>,
         !.travel = <<PyInt(Whole(20)), PyInt(Whole(125))>>],
     !.max_nozzle_temp_c = PyInt(Whole(220)),
     !.max_bed_temp_c = PyInt(Whole(60))]

ResinMachine == [BaseMachine EXCEPT !.type = "MSLA", !.motion_system = "none"]

ResinSLAMachine == [BaseMachine EXCEPT !.type = "SLA", !.motion_system = "none"]

RouterMachine ==
    [BaseMachine EXCEPT
     !.type = "CNC_Router", !.motion_system = "none",
     !.spindle_rpm_range = <<PyInt(Whole(8000)), PyInt(Whole(12000))>>,
     !.max_feed_mm_min = PyInt(Whole(3000)),
     !.rigidity_class = "hobby"]

MillMachine ==
    [BaseMachine EXCEPT
     !.type = "CNC_Mill", !.motion_system = "none",
     !.rigidity_class = "light_industrial"]

Machines ==
    {CoreXYMachine, BowdenMachine, ResinMachine, ResinSLAMachine,
     RouterMachine, MillMachine}

\* a profile whose limits are text: "300", ["190", 220], ["slow", "fast"]
TextLimitsMachine ==
    [BaseMachine EXCEPT
     !.material_presets =
        [m \in {"PLA"} |->
            [nozzle_c |-> <<PyStr, PyInt(Whole(220))>>,
             bed_c |-> <<PyInt(Whole(50)), PyInt(Whole(65))>>,
             fan_pct |-> <<>>]],
     !.safe_speed_ranges = [NoRanges EXCEPT !.print = <<PyStr, PyStr>>],
     !.max_nozzle_temp_c = PyStr,
     !.max_bed_temp_c = PyInt(Whole(110))]

\* two presets, one of them with a text minimum: ["230", 250]
MixedPresetMachine ==
    [BaseMachine EXCEPT
     !.material_presets =
        [m \in {"PLA", "ABS"} |->
            IF m = "PLA"
            THEN [nozzle_c |-> <<PyInt(Whole(190)), PyInt(Whole(220))>>,
                  bed_c |-> <<PyInt(Whole(50)), PyInt(Whole(65))>>,
                  fan_pct |-> <<>>]
            ELSE [nozzle_c |-> <<PyStr, PyInt(Whole(250))>>,
                  bed_c |-> <<PyInt(Whole(90)), PyInt(Whole(105))>>,
                  fan_pct |-> <<>>]],
     !.max_nozzle_temp_c = PyInt(Whole(300)),
     !.max_bed_temp_c = PyInt(Whole(110))]

\* a preset whose fan range reaches past 100: [90, 120]
WideFanMachine ==
    [BaseMachine EXCEPT
     !.motion_system = "BedSlinger",
     !.material_presets =
        [m \in {"PLA"} |->
            [nozzle_c |-> <<PyInt(Whole(190)), PyInt(Whole(220))>>,
             bed_c |-> <<PyInt(Whole(50)), PyInt(Whole(65))>>,
             fan_pct |-> <<PyInt(Whole(90)), PyInt(Whole(120))>>]]]

\* the profiles handed to _build_plan
PlanMachines == Machines \cup {WideFanMachine}

\* the profiles handed to clamp_to_machine
ClampMachines == Machines \cup {TextLimitsMachine, MixedPresetMachine}

----------------------------------------------------------------------------
(* Clamp Engine: server/app/rules.py *)

BeginnerAllowed ==
    {"nozzle_temp", "bed_temp", "print_speed", "fan_speed", "flow_rate"}

\* the Intermediate allow-list with jerk and the resin and CNC parameters
IntermediateAllowed_Motion ==
    {"nozzle_temp", "bed_temp", "print_speed", "travel_speed", "accel",
     "fan_speed", "flow_rate", "retraction_distance", "jerk", "lift_speed",
     "exposure_time", "feed_rate", "doc", "spindle_rpm"}

IntermediateAllowed ==
    {"nozzle_temp", "bed_temp", "print_speed", "travel_speed", "accel",
     "fan_speed", "flow_rate", "retraction_distance"}

\* "allowed" is a set of names, or all = TRUE for "*"; max_factor in percent
EXPERIENCE_SETTINGS ==
    [Beginner |->
        [all |-> FALSE, allowed |-> BeginnerAllowed, max_factor |-> 85,
         note |-> "Beginner mode limits adjustments to core temperature and speed controls."],
     Intermediate |->
        [all |-> FALSE, allowed |-> IntermediateAllowed, max_factor |-> 95,
         note |-> "Intermediate mode unlocks motion controls with moderate guard rails."],
     Advanced |->
        [all |-> TRUE, allowed |-> {}, max_factor |-> 100,
         note |-> "Advanced mode exposes all tunables within machine limits."]]

\* an unknown tier takes the Advanced settings
SettingsFor_Open(exp) ==
    IF exp \in DOMAIN EXPERIENCE_SETTINGS
    THEN EXPERIENCE_SETTINGS[exp]
    ELSE EXPERIENCE_SETTINGS["Advanced"]

\* line 47: EXPERIENCE_SETTINGS.get(experience, EXPERIENCE_SETTINGS["Intermediate"])
SettingsFor(exp) ==
    IF exp \in DOMAIN EXPERIENCE_SETTINGS
    THEN EXPERIENCE_SETTINGS[exp]
    ELSE EXPERIENCE_SETTINGS["Intermediate"]

_to_float(value) == ToFloat(value)

_range_from_safe(safe, key) ==
    LET values == safe[key]
    IN  IF Len(values) > 0
        THEN <<_to_float(values[1]), _to_float(values[Len(values)])>>
        ELSE <<PyNone, PyNone>>

_range_from_list(values) ==
    IF Len(values) = 0
    THEN <<PyNone, PyNone>>
    ELSE <<_to_float(values[1]), _to_float(values[Len(values)])>>

\* min(mins) compares None with another entry: TypeError
PyTypeError == [k |-> "raise", n |-> 0]

\* lines 143-151: mins holds _to_float of the first value of every preset
\* that lists the key; a non-numeric first value is None in that list, and
\* min() of two or more entries raises as soon as one of them is None
_min_from_presets(presets, key) ==
    LET listed == {m \in DOMAIN presets : Len(presets[m][key]) > 0}
        numeric == {m \in listed : IsNumber(presets[m][key][1])}
    IN  IF listed = {} THEN PyNone
        ELSE IF numeric = listed
        THEN PyFloat(SetMin({_to_float(presets[m][key][1]).n : m \in listed}))
        ELSE IF Cardinality(listed) = 1 THEN PyNone
        ELSE PyTypeError

_doc_limit(mach) ==
    LET rigidity == IF mach.rigidity_class = "none" THEN "hobby"
                    ELSE mach.rigidity_class
    IN  CASE rigidity = "hobby" -> PyFloat(Whole(2))
          [] rigidity = "hobby_pro" -> PyFloat(Whole(3))
          [] rigidity = "light_industrial" -> PyFloat(Whole(5))
          [] rigidity = "industrial" -> PyFloat(Whole(8))
          [] OTHER -> PyFloat(Whole(3))

_bounds_for(mach, key) ==
    LET safe == mach.safe_speed_ranges
        presets == mach.material_presets
    IN  CASE key = "nozzle_temp" ->
                <<_min_from_presets(presets, "nozzle_c"), _to_float(mach.max_nozzle_temp_c)>>
          [] key = "bed_temp" ->
                <<_min_from_presets(presets, "bed_c"), _to_float(mach.max_bed_temp_c)>>
          [] key = "print_speed" -> _range_from_safe(safe, "print")
          [] key = "travel_speed" -> _range_from_safe(safe, "travel")
          [] key = "accel" -> _range_from_safe(safe, "accel")
          [] key = "jerk" -> _range_from_safe(safe, "jerk")
          [] key = "fan_speed" -> <<PyFloat(0), PyFloat(Whole(100))>>
          [] key = "flow_rate" -> <<PyFloat(Whole(80)), PyFloat(Whole(120))>>
          [] key = "retraction_distance" -> <<PyFloat(Milli(200)), PyFloat(Whole(8))>>
          [] key = "spindle_rpm" -> _range_from_list(mach.spindle_rpm_range)
          [] key = "feed_rate" -> <<PyFloat(Whole(100)), _to_float(mach.max_feed_mm_min)>>
          [] key = "doc" -> <<PyFloat(Milli(100)), _doc_limit(mach)>>
          [] key = "stepover" -> <<PyFloat(Whole(1)), PyFloat(Whole(60))>>
          [] OTHER -> <<PyNone, PyNone>>

\* lines 60-62: the tier factor applies to a numeric maximum when it is < 1.0
EffectiveMax(max_bound, max_factor) ==
    IF IsNumber(max_bound) /\ max_factor < 100
    THEN PyFloat(MulPct(max_bound.n, max_factor))
    ELSE max_bound

\* the allow-list test dropped: every key is kept at every tier
IsHidden_Skipped(settings, key) == FALSE

\* line 56: a key outside the tier's allow-list is hidden
IsHidden(settings, key) == ~settings.all /\ key \notin settings.allowed

\* lines 65-68
RaiseToMin(value, min_bound) ==
    IF min_bound.k # "none" /\ value.n < min_bound.n
    THEN [value |-> min_bound, fired |-> TRUE]
    ELSE [value |-> value, fired |-> FALSE]

\* the maximum applied without the flag and the explanation
LowerToMax_Silent(value, effective_max) ==
    IF effective_max.k # "none" /\ value.n > effective_max.n
    THEN [value |-> effective_max, fired |-> FALSE]
    ELSE [value |-> value, fired |-> FALSE]

\* lines 69-72
LowerToMax(value, effective_max) ==
    IF effective_max.k # "none" /\ value.n > effective_max.n
    THEN [value |-> effective_max, fired |-> TRUE]
    ELSE [value |-> value, fired |-> FALSE]

\* lines 73-74
RoundFloat(value) ==
    IF value.k = "float" THEN PyFloat(Round3(value.n)) ELSE value

\* lines 59-75 for one allowed key: the new value and the explanations
ClampOne(mach, settings, key, value) ==
    LET bounds == _bounds_for(mach, key)
        min_bound == bounds[1]
        effective_max == EffectiveMax(bounds[2], settings.max_factor)
        raised == RaiseToMin(value, min_bound)
        lowered == LowerToMax(raised.value, effective_max)
    IN  IF min_bound = PyTypeError
        THEN [value |-> value, flag |-> FALSE, explanations |-> <<>>, raised |-> TRUE]
        ELSE IF IsNumber(value)
        THEN [value |-> RoundFloat(lowered.value),
              flag |-> raised.fired \/ lowered.fired,
              explanations |->
                (IF raised.fired THEN <<<<"Raised", key, min_bound.n>>>> ELSE <<>>)
                \o (IF lowered.fired THEN <<<<"Reduced", key, effective_max.n>>>> ELSE <<>>),
              raised |-> FALSE]
        ELSE [value |-> value, flag |-> FALSE, explanations |-> <<>>, raised |-> FALSE]

RECURSIVE ClampLoop(_, _, _, _, _)
ClampLoop(mach, settings, params, i, acc) ==
    IF i > Len(params) THEN acc
    ELSE LET key == params[i][1]
             value == params[i][2]
         IN  IF IsHidden(settings, key)
             THEN ClampLoop(mach, settings, params, i + 1,
                            [acc EXCEPT !.hidden = @ \cup {key}])
             ELSE LET one == ClampOne(mach, settings, key, value)
                  IN  IF one.raised THEN [acc EXCEPT !.raised = TRUE]
                      ELSE ClampLoop(mach, settings, params, i + 1,
                            [acc EXCEPT
                             !.clamped = Append(@, <<key, one.value>>),
                             !.flag = @ \/ one.flag,
                             !.explanations = @ \o one.explanations])


\* Python's ascending order of the parameter names that occur in the model
NameOrder ==
    <<"accel", "bed_temp", "custom_gcode", "doc", "drying_recommendation",
      "exposure_time", "fan_speed", "feed_rate", "flow_rate", "jerk",
      "lift_speed", "nozzle_temp", "print_speed", "retraction_distance",
      "spindle_rpm", "stepover", "travel_speed">>

\* list(hidden) without sorting: here the descending order
Sorted_Unordered(names) ==
    LET up == SelectSeq(NameOrder, LAMBDA k : k \in names)
    IN  [i \in DOMAIN up |-> up[Len(up) + 1 - i]]

\* sorted(hidden), line 79
Sorted(names) == SelectSeq(NameOrder, LAMBDA k : k \in names)

clamp_to_machine(mach, params, exp) ==
    LET settings == SettingsFor(exp)
        done == ClampLoop(mach, settings, params, 1,
                    [clamped |-> <<>>, hidden |-> {}, flag |-> FALSE,
                     explanations |-> <<settings.note>>, raised |-> FALSE])
    IN  IF done.raised
        THEN [parameters |-> <<>>, hidden_parameters |-> <<>>, experience_level |-> "",
              clamped_to_machine_limits |-> FALSE, explanations |-> <<>>,
              raised |-> TRUE]
        ELSE [parameters |-> done.clamped,
              hidden_parameters |-> Sorted(done.hidden),
              experience_level |-> exp,
              clamped_to_machine_limits |-> done.flag,
              explanations |-> done.explanations,
              raised |-> FALSE]

\* dict helpers over a sequence of <<key, value>> items (insertion order)
Keys(items) == {items[i][1] : i \in DOMAIN items}
Get(items, key) == items[CHOOSE i \in DOMAIN items : items[i][1] = key][2]
Elems(seq) == {seq[i] : i \in DOMAIN seq}

----------------------------------------------------------------------------
(* Suggestion Composer: server/rules/suggest.py *)

\* issue ids are strings of characters, so that substring tests are computed
Chars(word) ==
    CASE word = "stringing" -> <<"s","t","r","i","n","g","i","n","g">>
      [] word = "under_extrusion" ->
            <<"u","n","d","e","r","_","e","x","t","r","u","s","i","o","n">>
      [] word = "ringing" -> <<"r","i","n","g","i","n","g">>
      [] word = "resin_peel" -> <<"r","e","s","i","n","_","p","e","e","l">>
      [] word = "cnc_chatter" -> <<"c","n","c","_","c","h","a","t","t","e","r">>
      [] word = "warping" -> <<"w","a","r","p","i","n","g">>
      [] word = "overheating" -> <<"o","v","e","r","h","e","a","t","i","n","g">>
      [] word = "blobs" -> <<"b","l","o","b","s">>
      [] word = "Stringing" -> <<"S","t","r","i","n","g","i","n","g">>
      [] word = "general_tuning" ->
            <<"g","e","n","e","r","a","l","_","t","u","n","i","n","g">>
      [] word = "string" -> <<"s","t","r","i","n","g">>
      [] word = "under" -> <<"u","n","d","e","r">>
      [] word = "ring" -> <<"r","i","n","g">>
      [] word = "peel" -> <<"p","e","e","l">>
      [] word = "chatter" -> <<"c","h","a","t","t","e","r">>
      [] word = "over_extrusion" ->
            <<"o","v","e","r","_","e","x","t","r","u","s","i","o","n">>
      [] word = "layer_shift" -> <<"l","a","y","e","r","_","s","h","i","f","t">>
      [] word = "poor_adhesion" ->
            <<"p","o","o","r","_","a","d","h","e","s","i","o","n">>
      [] word = "wet_filament" -> <<"w","e","t","_","f","i","l","a","m","e","n","t">>
      [] word = "dimensional_error" ->
            <<"d","i","m","e","n","s","i","o","n","a","l","_","e","r","r","o","r">>

UpperLetters ==
    <<"A","B","C","D","E","F","G","H","I","J","K","L","M",
      "N","O","P","Q","R","S","T","U","V","W","X","Y","Z">>

LowerLetters ==
    <<"a","b","c","d","e","f","g","h","i","j","k","l","m",
      "n","o","p","q","r","s","t","u","v","w","x","y","z">>

\* str.lower() on one character
LowerChar(c) ==
    IF \E i \in DOMAIN UpperLetters : UpperLetters[i] = c
    THEN LowerLetters[CHOOSE i \in DOMAIN UpperLetters : UpperLetters[i] = c]
    ELSE c

\* the issue id compared as it was written
Lower_AsWritten(text) == text

\* issue_id.lower(), line 46
Lower(text) == [i \in DOMAIN text |-> LowerChar(text[i])]

\* sub in text
Contains(sub, text) ==
    \E start \in 1..(Len(text) - Len(sub) + 1) :
        SubSeq(text, start, start + Len(sub) - 1) = sub

\* lines 46-58; the handler is named by its method
_handler_for_issue(issue_id) ==
    LET low == Lower(issue_id)
    IN  IF Contains(Chars("string"), low) THEN "_stringing"
        ELSE IF Contains(Chars("under"), low) THEN "_under_extrusion"
        ELSE IF Contains(Chars("ring"), low) THEN "_ringing"
        ELSE IF Contains(Chars("peel"), low) THEN "_resin_peel"
        ELSE IF Contains(Chars("chatter"), low) THEN "_cnc_chatter"
        ELSE "_general_best_practice"

\* the sum of f(values[i].n), a list of numbers
RECURSIVE SumOver(_, _, _)
SumOver(values, n, part) ==
    IF values = <<>> THEN 0
    ELSE (IF part = "quot" THEN values[1].n \div n ELSE values[1].n % n)
         + SumOver(Tail(values), n, part)

\* sum(values) / len(values), without overflowing 32 bits
Mean(values) ==
    LET n == Len(values)
    IN  SumOver(values, n, "quot") + SumOver(values, n, "rem") \div n

\* lines 304-307
midpoint(values, fallback) ==
    IF Len(values) > 0 THEN Mean(values) ELSE fallback

Min2(a, b) == IF a <= b THEN a ELSE b

\* lines 300-334
_baseline_fdm(mach, mat) ==
    LET presets == mach.material_presets
        preset == IF mat \in DOMAIN presets THEN presets[mat]
                  ELSE IF "PLA" \in DOMAIN presets THEN presets["PLA"]
                  ELSE NoPreset
        nozzle == midpoint(preset.nozzle_c, Whole(210))
        bed0 == midpoint(preset.bed_c, Whole(60))
        fan0 == midpoint(preset.fan_pct, Whole(70))
        fast == mach.motion_system \in {"CoreXY", "H-Bot"}
        hot == mach.enclosed /\ mat = "ABS"
        max_bed == IF IsNumber(mach.max_bed_temp_c) /\ mach.max_bed_temp_c.n # 0
                   THEN mach.max_bed_temp_c.n ELSE bed0
        bed == IF hot THEN Min2(bed0 + Whole(10), max_bed) ELSE bed0
        fan == IF hot THEN Min2(fan0, Whole(15)) ELSE fan0
    IN  [nozzle_temp |-> nozzle,
         bed_temp |-> bed,
         print_speed |-> IF fast THEN Whole(120) ELSE Whole(90),
         travel_speed |-> IF fast THEN Whole(150) ELSE Whole(120),
         accel |-> IF mach.supports.input_shaping THEN Whole(5000) ELSE Whole(3000),
         jerk |-> IF fast THEN Whole(12) ELSE Whole(8),
         fan_speed |-> fan,
         flow_rate |-> Whole(100),
         retraction_distance |-> IF mach.supports.ams THEN Milli(800) ELSE Milli(600)]

\* lines 336-343
_baseline_resin(mach, mat) ==
    [exposure_time |-> IF mat = "RESIN_STD" THEN Milli(2300) ELSE Whole(2),
     lift_speed |-> Whole(60)]

\* "industrial" in rigidity / "light" in rigidity, lines 351-355
RigidityHas(rigidity, word) ==
    CASE word = "industrial" -> rigidity \in {"industrial", "light_industrial"}
      [] word = "light" -> rigidity \in {"light_industrial"}

\* lines 345-362
_baseline_cnc(mach) ==
    LET spindle_range == IF Len(mach.spindle_rpm_range) > 0
                         THEN mach.spindle_rpm_range
                         ELSE <<PyInt(Whole(8000)), PyInt(Whole(18000))>>
        max_feed == IF IsNumber(mach.max_feed_mm_min) /\ mach.max_feed_mm_min.n # 0
                    THEN mach.max_feed_mm_min.n ELSE Whole(6000)
        rigidity == IF mach.rigidity_class = "none" THEN "hobby"
                    ELSE mach.rigidity_class
    IN  [spindle_rpm |-> Mean(spindle_range),
         feed_rate |-> MulPct(max_feed, 70),
         doc |-> IF RigidityHas(rigidity, "industrial") THEN Whole(4)
                 ELSE IF RigidityHas(rigidity, "light") THEN Whole(3)
                 ELSE Whole(2),
         stepover |-> Whole(40)]

\* lines 288-298
_baseline(mach, mat) ==
    IF mach.type \in {"MSLA", "SLA"} THEN _baseline_resin(mach, mat)
    ELSE IF mach.type \in {"CNC_Router", "CNC_Mill"} THEN _baseline_cnc(mach)
    ELSE _baseline_fdm(mach, mat)

Adjustment(param, target, unit, range_hint) ==
    [param |-> param, target |-> PyFloat(target), unit |-> unit,
     range_hint |-> range_hint, requires_clamp |-> TRUE]

\* lines 64-91; baseline[...] raises KeyError on a missing key
_stringing(mach, baseline) ==
    IF {"nozzle_temp", "retraction_distance", "travel_speed"} \subseteq DOMAIN baseline
    THEN [raised |-> FALSE, risk |-> "medium", adjustments |->
            <<Adjustment("nozzle_temp", baseline.nozzle_temp - Whole(10), "C",
                         <<-Whole(15), -Whole(5)>>),
              Adjustment("retraction_distance", baseline.retraction_distance + Whole(1),
                         "mm", <<Milli(500), Milli(1500)>>),
              Adjustment("travel_speed", baseline.travel_speed + Whole(10), "mm/s",
                         <<Whole(5), Whole(20)>>),
              [param |-> "drying_recommendation",
               target |-> IF mach.supports.ams THEN PyInt(0) ELSE PyInt(Whole(1)),
               unit |-> "none", range_hint |-> <<>>, requires_clamp |-> FALSE]>>]
    ELSE [raised |-> TRUE, risk |-> "medium", adjustments |-> <<>>]

\* lines 106-131
_under_extrusion(mach, baseline) ==
    IF {"nozzle_temp", "print_speed"} \subseteq DOMAIN baseline
    THEN [raised |-> FALSE, risk |-> "medium", adjustments |->
            <<Adjustment("nozzle_temp", baseline.nozzle_temp + Whole(8), "C",
                         <<Whole(5), Whole(10)>>),
              Adjustment("print_speed", MulPct(baseline.print_speed, 85), "mm/s",
                         <<-Whole(20), -Whole(10)>>),
              Adjustment("flow_rate", Whole(103), "%", <<Whole(2), Whole(5)>>)>>]
    ELSE [raised |-> TRUE, risk |-> "medium", adjustments |-> <<>>]

\* lines 148-175
_ringing(mach, baseline) ==
    LET is_bedslinger == mach.motion_system = "BedSlinger"
    IN  IF {"accel", "jerk", "print_speed"} \subseteq DOMAIN baseline
        THEN [raised |-> FALSE, risk |-> "low", adjustments |->
                <<Adjustment("accel",
                             MulPct(baseline.accel, IF is_bedslinger THEN 60 ELSE 80),
                             "mm/s^2", <<-Whole(3000), -Whole(500)>>),
                  Adjustment("jerk",
                             MulPct(baseline.jerk, IF is_bedslinger THEN 65 ELSE 85),
                             "mm/s", <<-Whole(8), -Whole(2)>>),
                  Adjustment("print_speed", MulPct(baseline.print_speed, 90), "mm/s",
                             <<-Whole(15), -Whole(5)>>)>>]
        ELSE [raised |-> TRUE, risk |-> "low", adjustments |-> <<>>]

\* lines 191-207: the adjustments of _resin_peel from its baseline
ResinPeelAdjustments(baseline) ==
    [raised |-> FALSE, risk |-> "medium", adjustments |->
        <<Adjustment("lift_speed", MulPct(baseline.lift_speed, 85), "mm/min",
                     <<-Whole(20), -Whole(5)>>),
          Adjustment("exposure_time", MulPct(baseline.exposure_time, 110), "s",
                     <<Whole(5), Whole(15)>>)>>]

\* lines 189-218: baseline = self._baseline_resin()
_resin_peel(mach, mat) == ResinPeelAdjustments(_baseline_resin(mach, mat))

\* lines 222-244: the adjustments of _cnc_chatter from its baseline
CncChatterAdjustments(baseline) ==
    [raised |-> FALSE, risk |-> "medium", adjustments |->
        <<Adjustment("feed_rate", MulPct(baseline.feed_rate, 80), "mm/min",
                     <<-Whole(25), -Whole(10)>>),
          Adjustment("doc", MulPct(baseline.doc, 70), "mm",
                     <<-Whole(2), -Milli(500)>>),
          Adjustment("spindle_rpm", MulPct(baseline.spindle_rpm, 105), "rpm",
                     <<Whole(5), Whole(10)>>)>>]

\* lines 220-255: baseline = self._baseline_cnc()
_cnc_chatter(mach) == CncChatterAdjustments(_baseline_cnc(mach))

\* lines 257-274
_general_best_practice(baseline) ==
    [raised |-> FALSE, risk |-> "low", adjustments |->
        IF "nozzle_temp" \in DOMAIN baseline
        THEN <<Adjustment("nozzle_temp", baseline.nozzle_temp, "C", <<0, 0>>),
               Adjustment("bed_temp", baseline.bed_temp, "C", <<0, 0>>)>>
        ELSE <<>>]

\* the adjustments of a handler
Recipe(handler, mach, mat) ==
    LET baseline == _baseline(mach, mat)
    IN  CASE handler = "_stringing" -> _stringing(mach, baseline)
          [] handler = "_under_extrusion" -> _under_extrusion(mach, baseline)
          [] handler = "_ringing" -> _ringing(mach, baseline)
          [] handler = "_resin_peel" -> _resin_peel(mach, mat)
          [] handler = "_cnc_chatter" -> _cnc_chatter(mach)
          [] OTHER -> _general_best_practice(baseline)

\* lines 375-379
ClampInputs(adjustments) ==
    LET wanted == SelectSeq(adjustments,
                    LAMBDA c : c.requires_clamp /\ c.target.k # "none")
    IN  [i \in DOMAIN wanted |-> <<wanted[i].param, wanted[i].target>>]

\* the unclamped target is taken whether or not the parameter survived
TargetValue_Raw(change, clamped_values) == change.target

\* lines 389-391; PyNone when the change is skipped
TargetValue(change, clamped_values) ==
    IF change.requires_clamp
    THEN IF change.param \in Keys(clamped_values)
         THEN Get(clamped_values, change.param)
         ELSE PyNone
    ELSE change.target

\* lines 401-404
Delta(baseline, param, target_value) ==
    IF param \in DOMAIN baseline /\ IsNumber(target_value)
    THEN PyFloat(Round3(target_value.n - baseline[param]))
    ELSE PyNone

RECURSIVE BuildChanges(_, _, _, _)
BuildChanges(adjustments, clamped_values, baseline, i) ==
    IF i > Len(adjustments) THEN <<>>
    ELSE LET change == adjustments[i]
             target_value == TargetValue(change, clamped_values)
             rest == BuildChanges(adjustments, clamped_values, baseline, i + 1)
         IN  IF target_value.k = "none" THEN rest
             ELSE <<[param |-> change.param,
                     new_target |-> ToFloat(target_value),
                     unit |-> change.unit,
                     delta |-> Delta(baseline, change.param, target_value),
                     range_hint |-> change.range_hint]>> \o rest

\* lines 381-425: the suggestion assembled from the clamp result; clamp_inputs
\* and applied are kept with the suggestion
SuggestionFrom(mach, mat, prediction, recipe, clamp_inputs, result) ==
        [issue_id |-> prediction.issue_id,
         changes |-> BuildChanges(recipe.adjustments, result.parameters,
                                  _baseline(mach, mat), 1),
         why_suffix |-> Tail(result.explanations),
         risk |-> recipe.risk,
         confidence |-> prediction.confidence,
         clamped_to_machine_limits |-> result.clamped_to_machine_limits,
         adjustments |-> recipe.adjustments,
         clamp_inputs |-> clamp_inputs,
         applied |-> result]

\* line 380: the engine is applied to the clamp inputs
ClampedSuggestion(mach, mat, exp, prediction, recipe, clamp_inputs) ==
    SuggestionFrom(mach, mat, prediction, recipe, clamp_inputs,
                   clamp_to_machine(mach, clamp_inputs, exp))

\* lines 365-425
_build_suggestion(mach, mat, exp, prediction, recipe) ==
    ClampedSuggestion(mach, mat, exp, prediction, recipe,
                      ClampInputs(recipe.adjustments))

\* lines 38-43: the handlers run in input order, the first exception ends plan
RECURSIVE PlanEach(_, _, _, _, _)
PlanEach(mach, mat, exp, items, i) ==
    IF i > Len(items) THEN [raised |-> FALSE, suggestions |-> <<>>]
    ELSE LET recipe == Recipe(_handler_for_issue(items[i].issue_id), mach, mat)
             rest == PlanEach(mach, mat, exp, items, i + 1)
         IN  IF recipe.raised \/ rest.raised
             THEN [raised |-> TRUE, suggestions |-> <<>>]
             ELSE [raised |-> FALSE, suggestions |->
                    <<_build_suggestion(mach, mat, exp, items[i], recipe)>>
                    \o rest.suggestions]

\* pred.confidence < 0.5, line 29
IsLow(pred) == pred.confidence < 50000

\* lines 29-31
IsLowConfidence(items) ==
    items = <<>> \/ \A i \in DOMAIN items : IsLow(items[i])

\* lines 27-43
plan(mach, mat, exp, items) ==
    IF IsLowConfidence(items)
    THEN LET fallback == [issue_id |-> Chars("general_tuning"), confidence |-> 45000]
             recipe == _general_best_practice(_baseline(mach, mat))
         IN  [raised |-> FALSE, low_confidence |-> TRUE,
              suggestions |->
                <<_build_suggestion(mach, mat, exp, fallback, recipe)>>]
    ELSE LET each == PlanEach(mach, mat, exp, items, 1)
         IN  [raised |-> each.raised, low_confidence |-> FALSE,
              suggestions |-> each.suggestions]

----------------------------------------------------------------------------
(* Prediction builder: server/app/ml/pipeline.py *)

\* "bowden" in motion, line 400 (motion is lower-cased on line 395)
MotionHasBowden(motion) == motion \in {"BedSlinger Bowden", "bowden"}

\* the boost added without the cap
Boost_Uncapped(adjusted, amount) == adjusted + amount

\* min(0.995, adjusted + amount), lines 401 and 403
Boost(adjusted, amount) == Min2(99500, adjusted + amount)

\* lines 399-404
AdjustedScore(mach, label, score) ==
    LET first == IF MotionHasBowden(mach.motion_system) /\ label = Chars("stringing")
                 THEN Boost(score, 8000) ELSE score
        second == IF mach.enclosed /\ label \in {Chars("warping"), Chars("overheating")}
                  THEN Boost(first, 5000) ELSE first
    IN  Round3(second)

\* scores.sort(key=item[1], reverse=True), line 406: stable, descending
RECURSIVE SortScores(_)
SortScores(scores) ==
    IF scores = <<>> THEN <<>>
    ELSE LET n == Len(scores)
             last == scores[n]
             front == SortScores(SubSeq(scores, 1, n - 1))
             keep == {i \in DOMAIN front : front[i][2] >= last[2]}
             at == Cardinality(keep)
         IN  SubSeq(front, 1, at) \o <<last>> \o SubSeq(front, at + 1, Len(front))

\* scores[:5], line 407
TopFive(scores) == SubSeq(scores, 1, Min2(5, Len(scores)))

\* lines 383-408
_build_predictions(ps, ls, mach) ==
    IF Len(ps) # Len(ls)
    THEN [raised |-> TRUE, predictions |-> <<>>]
    ELSE LET scores == [i \in DOMAIN ls |-> <<ls[i], AdjustedScore(mach, ls[i], ps[i])>>]
             top == TopFive(SortScores(scores))
         IN  [raised |-> FALSE,
              predictions |->
                [i \in DOMAIN top |-> [issue_id |-> top[i][1], confidence |-> top[i][2]]]]

----------------------------------------------------------------------------
(* Classifier loading and the pipeline singleton: server/app/ml/pipeline.py *)

\* the request threads of the server process
Threads == 1 .. MaxThreads

\* what settings.LINEAR_MODEL_PATH can point to: a valid artifact, no file,
\* a file that is not the expected JSON, a weight matrix whose row count
\* differs from the label count
Artifacts == {"ok", "missing", "malformed", "mismatch"}

\* lines 207-208: __init__ stores the path and reads nothing, so it ends
\* without an exception for every artifact
LinearClassifierInit(art) == "none"

\* lines 212-225: the exception the body of _load ends with
LoadOutcome(art) ==
    CASE art = "missing" -> "RuntimeError"
      [] art = "malformed" -> "JSONDecodeError"
      [] art = "mismatch" -> "RuntimeError"
      [] OTHER -> "none"

----------------------------------------------------------------------------
(* Localisation: _build_boxes, server/app/ml/pipeline.py                    *)
(* An activation map is a sequence of rows, each a sequence of scaled       *)
(* numbers; cell (y, x) of the code is heat[y + 1][x + 1].                  *)

Max2(a, b) == IF a >= b THEN a ELSE b

\* round(n / d, 3) for integers n >= 0, d > 0: ties go to the even thousandth
RoundRatio3(n, d) ==
    LET q == (1000 * n) \div d
        r == (1000 * n) % d
    IN  IF 2 * r > d \/ (2 * r = d /\ q % 2 = 1) THEN (q + 1) * 100 ELSE q * 100

\* heat.shape, line 492
MapHeight(heat) == Len(heat)
MapWidth(heat) == IF Len(heat) = 0 THEN 0 ELSE Len(heat[1])

\* the window without the floor of 16 cells
WindowSize_Quarter(side) == Max2(1, side \div 4)

\* lines 496-497: max(16, side // 4)
WindowSize(side) == Max2(16, side \div 4)

\* lines 498-499: max(4, window // 6)
Stride(window) == Max2(4, window \div 6)

\* range(0, stop, step) as a sequence
Range(stop, step) ==
    IF stop <= 0 THEN <<>>
    ELSE [i \in 1 .. ((stop + step - 1) \div step) |-> (i - 1) * step]

\* the sum of row[x0 .. x1] (0-based, inclusive)
RECURSIVE RowSum(_, _, _)
RowSum(row, x0, x1) ==
    IF x0 > x1 THEN 0 ELSE row[x0 + 1] + RowSum(row, x0 + 1, x1)

\* lines 534-539 over the integral image of line 503: the sum of the cells
\* of the window [y0 .. y1] x [x0 .. x1]
RECURSIVE _window_sum(_, _, _, _, _)
_window_sum(heat, x0, y0, x1, y1) ==
    IF y0 > y1 THEN 0
    ELSE RowSum(heat[y0 + 1], x0, x1) + _window_sum(heat, x0, y0 + 1, x1, y1)

\* lines 506-508: the window origins in scan order, y outer and x inner
Candidates(height, width, window_h, window_w) ==
    LET ys == Range(height - window_h + 1, Stride(window_h))
        xs == Range(width - window_w + 1, Stride(window_w))
    IN  [i \in 1 .. (Len(ys) * Len(xs)) |->
            <<xs[((i - 1) % Len(xs)) + 1], ys[((i - 1) \div Len(xs)) + 1]>>]

\* lines 504-513: the first window with the highest sum; best_score starts
\* at -1.0 and best_coords at None (found = FALSE)
RECURSIVE BestWindow(_, _, _, _, _, _)
BestWindow(heat, cands, window_h, window_w, i, best) ==
    IF i > Len(cands) THEN best
    ELSE BestWindow(heat, cands, window_h, window_w, i + 1,
            IF _window_sum(heat, cands[i][1], cands[i][2],
                           cands[i][1] + window_w - 1,
                           cands[i][2] + window_h - 1) > best.score
            THEN [found |-> TRUE,
                  score |-> _window_sum(heat, cands[i][1], cands[i][2],
                                        cands[i][1] + window_w - 1,
                                        cands[i][2] + window_h - 1),
                  x0 |-> cands[i][1], y0 |-> cands[i][2],
                  x1 |-> cands[i][1] + window_w - 1,
                  y1 |-> cands[i][2] + window_h - 1]
            ELSE best)

\* line 524: min(0.99, max(0.1, best_score / (window_h * window_w)))
BoxConfidence(score, window_h, window_w) ==
    Min2(99000, Max2(10000, score \div (window_h * window_w)))

\* lines 516-530
MakeBox(prediction, best, height, width, window_h, window_w) ==
    [issue_id |-> prediction.issue_id,
     confidence |-> BoxConfidence(best.score, window_h, window_w),
     x |-> RoundRatio3(best.x0, width),
     y |-> RoundRatio3(best.y0, height),
     width |-> RoundRatio3(best.x1 - best.x0 + 1, width),
     height |-> RoundRatio3(best.y1 - best.y0 + 1, height)]

\* line 531: heat[y0 : y1 + 1, x0 : x1 + 1] *= 0.25
Suppress(heat, best) ==
    [y \in DOMAIN heat |->
        [x \in DOMAIN heat[y] |->
            IF /\ best.y0 + 1 <= y /\ y <= best.y1 + 1
               /\ best.x0 + 1 <= x /\ x <= best.x1 + 1
            THEN heat[y][x] \div 4
            ELSE heat[y][x]]]

NoWindow == [found |-> FALSE, score |-> -100000, x0 |-> 0, y0 |-> 0, x1 |-> 0, y1 |-> 0]

\* every prediction gets a box
Picked_All(items) == items

\* line 502: predictions[:3]
Picked(items) == SubSeq(items, 1, Min2(3, Len(items)))

\* lines 502-531: one pass per picked prediction
RECURSIVE BoxLoop(_, _, _, _)
BoxStep(heat, items, i, acc, best) ==
    IF ~best.found THEN acc
    ELSE BoxLoop(Suppress(heat, best), items, i + 1,
                 Append(acc, MakeBox(items[i], best, MapHeight(heat), MapWidth(heat),
                                     WindowSize(MapHeight(heat)),
                                     WindowSize(MapWidth(heat)))))

BoxLoop(heat, items, i, acc) ==
    IF i > Len(items) THEN acc
    ELSE BoxStep(heat, items, i, acc,
            BestWindow(heat,
                       Candidates(MapHeight(heat), MapWidth(heat),
                                  WindowSize(MapHeight(heat)),
                                  WindowSize(MapWidth(heat))),
                       WindowSize(MapHeight(heat)), WindowSize(MapWidth(heat)),
                       1, NoWindow))

\* lines 485-532
_build_boxes(activation_map, items) ==
    IF items = <<>> THEN <<>>
    ELSE IF MapHeight(activation_map) < 4 \/ MapWidth(activation_map) < 4 THEN <<>>
    ELSE BoxLoop(activation_map, Picked(items), 1, <<>>)

----------------------------------------------------------------------------
(* Baseline Planner: _build_plan, server/app/ml/pipeline.py                 *)
(* A target map is a function from parameter names to scaled numbers.       *)

\* lines 54-60, with the fallback of line 561
MATERIAL_BASELINES(mat) ==
    CASE mat = "PETG" -> [nozzle_temp |-> Whole(235), bed_temp |-> Whole(80), fan_speed |-> Whole(40)]
      [] mat = "ABS" -> [nozzle_temp |-> Whole(240), bed_temp |-> Whole(100), fan_speed |-> Whole(10)]
      [] mat = "ASA" -> [nozzle_temp |-> Whole(245), bed_temp |-> Whole(105), fan_speed |-> Whole(15)]
      [] mat = "TPU" -> [nozzle_temp |-> Whole(225), bed_temp |-> Whole(55), fan_speed |-> Whole(60)]
      [] OTHER -> [nozzle_temp |-> Whole(210), bed_temp |-> Whole(60), fan_speed |-> Whole(80)]

\* lines 62-109: the delta row of an issue in dict order; empty when unknown
ISSUE_PARAM_DELTAS(issue) ==
    CASE issue = Chars("stringing") ->
            <<<<"nozzle_temp", -Whole(8)>>, <<"fan_speed", Whole(12)>>,
              <<"retraction_distance", Milli(200)>>, <<"travel_speed", Whole(10)>>>>
      [] issue = Chars("under_extrusion") ->
            <<<<"flow_rate", Whole(8)>>, <<"nozzle_temp", Whole(6)>>,
              <<"print_speed", -Whole(15)>>>>
      [] issue = Chars("over_extrusion") ->
            <<<<"flow_rate", -Whole(6)>>, <<"retraction_distance", -Milli(100)>>>>
      [] issue = Chars("ringing") ->
            <<<<"accel", -Whole(1200)>>, <<"jerk", -Whole(2)>>,
              <<"print_speed", -Whole(10)>>>>
      [] issue = Chars("layer_shift") ->
            <<<<"accel", -Whole(800)>>, <<"travel_speed", -Whole(15)>>>>
      [] issue = Chars("warping") ->
            <<<<"bed_temp", Whole(8)>>, <<"fan_speed", -Whole(25)>>>>
      [] issue = Chars("poor_adhesion") ->
            <<<<"bed_temp", Whole(6)>>, <<"print_speed", -Whole(8)>>,
              <<"flow_rate", Whole(3)>>>>
      [] issue = Chars("overheating") ->
            <<<<"fan_speed", Whole(20)>>, <<"print_speed", -Whole(12)>>>>
      [] issue = Chars("wet_filament") ->
            <<<<"fan_speed", Whole(5)>>, <<"nozzle_temp", -Whole(4)>>>>
      [] issue = Chars("dimensional_error") ->
            <<<<"flow_rate", -Whole(4)>>, <<"print_speed", -Whole(10)>>,
              <<"jerk", -Whole(1)>>>>
      [] OTHER -> <<>>

\* lines 679-684: the mean of a non-empty list, else the fallback
_mean(values, fallback) == IF Len(values) > 0 THEN Mean(values) ELSE fallback

\* lines 562-569: the preset of the material, else the PLA preset, else {}
PlanPreset(mach, mat) ==
    IF mat \in DOMAIN mach.material_presets THEN mach.material_presets[mat]
    ELSE IF "PLA" \in DOMAIN mach.material_presets THEN mach.material_presets["PLA"]
    ELSE NoPreset

\* line 576: machine.get("motion_system") or "Bedslinger"
PlanMotion(mach) ==
    IF mach.motion_system = "none" THEN "Bedslinger" ELSE mach.motion_system

\* line 592: "core" in motion_lower or "h-bot" in motion_lower
MotionHasCore(motion) == motion \in {"CoreXY", "H-Bot"}

\* line 601: "belt" in motion_lower or motion_lower.startswith("bed")
MotionHasBed(motion) == motion \in {"BedSlinger", "BedSlinger Bowden", "Bedslinger", "Belt"}

\* lines 571-589
MaterialTargets(mach, defaults, preset) ==
    [nozzle_temp |-> _mean(preset.nozzle_c, defaults.nozzle_temp),
     bed_temp |-> _mean(preset.bed_c, defaults.bed_temp),
     fan_speed |-> _mean(preset.fan_pct, defaults.fan_speed),
     flow_rate |-> Whole(100),
     retraction_distance |-> IF mach.supports.ams THEN Milli(800) ELSE Milli(600),
     print_speed |-> Whole(90),
     travel_speed |-> Whole(130),
     accel |-> Whole(3200),
     jerk |-> Whole(8)]

\* lines 591-609
MotionTargets(base, motion) ==
    IF MotionHasCore(motion)
    THEN [base EXCEPT !.print_speed = Whole(130), !.travel_speed = Whole(180),
                      !.accel = Whole(5200), !.jerk = Whole(12)]
    ELSE IF MotionHasBed(motion)
    THEN [base EXCEPT !.print_speed = Whole(95), !.travel_speed = Whole(140),
                      !.accel = Whole(3000), !.jerk = Whole(7)]
    ELSE base

\* lines 611-613
EnclosedTargets(base, mach, defaults) ==
    IF mach.enclosed
    THEN [base EXCEPT !.fan_speed = Min2(@, Whole(40)),
                      !.bed_temp = Max2(@, defaults.bed_temp + Whole(3))]
    ELSE base

\* lines 615-616
ShapingTargets(base, mach) ==
    IF mach.supports.input_shaping
    THEN [base EXCEPT !.accel = Max2(@, Whole(6000))]
    ELSE base

\* lines 618-620
HotMaterialTargets(base, mat, defaults) ==
    IF mat \in {"ABS", "ASA"}
    THEN [base EXCEPT !.fan_speed = Min2(@, Whole(20)),
                      !.bed_temp = Max2(@, defaults.bed_temp)]
    ELSE base

\* lines 561-620: base_targets before the issue deltas
BaseTargets(mach, mat) ==
    HotMaterialTargets(
        ShapingTargets(
            EnclosedTargets(
                MotionTargets(
                    MaterialTargets(mach, MATERIAL_BASELINES(mat), PlanPreset(mach, mat)),
                    PlanMotion(mach)),
                mach, MATERIAL_BASELINES(mat)),
            mach),
        mat, MATERIAL_BASELINES(mat))

\* the restriction is left out: the value is only rounded
Restrict_None(key, value) == value

\* lines 635-640
Restrict(key, value) ==
    IF key \in {"fan_speed", "flow_rate"}
    THEN Max2(0, Min2(Whole(100), value))
    ELSE Max2(0, value)

\* lines 628-642
RECURSIVE _apply_issue_deltas_from(_, _, _)
_apply_issue_deltas_from(adjusted, deltas, i) ==
    IF i > Len(deltas) THEN adjusted
    ELSE IF deltas[i][1] \notin DOMAIN adjusted
    THEN _apply_issue_deltas_from(adjusted, deltas, i + 1)
    ELSE _apply_issue_deltas_from(
            [adjusted EXCEPT ![deltas[i][1]] =
                Round3(Restrict(deltas[i][1], @ + deltas[i][2]))],
            deltas, i + 1)

_apply_issue_deltas(targets, issue) ==
    _apply_issue_deltas_from(targets, ISSUE_PARAM_DELTAS(issue), 1)

\* lines 111-155: the number of tips ISSUE_RECOMMENDATIONS holds for an issue
TipCount(issue) ==
    CASE issue \in {Chars("stringing"), Chars("under_extrusion"), Chars("ringing")} -> 3
      [] issue \in {Chars("over_extrusion"), Chars("layer_shift"), Chars("warping"),
                    Chars("poor_adhesion"), Chars("overheating"), Chars("wet_filament"),
                    Chars("dimensional_error")} -> 2
      [] OTHER -> 0

\* ISSUE_RECOMMENDATIONS.get(issue, []): tip i of an issue is <<issue, i>>
Tips(issue) == [i \in 1 .. TipCount(issue) |-> <<issue, i>>]

\* lines 157-160
DEFAULT_RECOMMENDATIONS == <<<<Chars("general_tuning"), 1>>, <<Chars("general_tuning"), 2>>>>

\* lines 644-649: the tips of the secondary issue that are not yet listed
_merge_recommendations(base, secondary_issue) ==
    base \o SelectSeq(Tips(secondary_issue), LAMBDA tip : tip \notin Elems(base))

\* lines 651-673
_capability_notes(mach, motion) ==
    (IF motion \in {"CoreXY"} THEN <<"corexy">>
     ELSE IF MotionHasBed(motion) /\ motion # "Belt" THEN <<"bedslinger">>
     ELSE <<"motion">>)
    \o (IF mach.enclosed THEN <<"enclosed">> ELSE <<>>)
    \o (IF mach.supports.input_shaping THEN <<"input_shaping">> ELSE <<>>)
    \o (IF mach.supports.ams THEN <<"ams">> ELSE <<>>)

\* lines 571-573: nozzle, bed and fan before the modifiers
StartTargets(mach, mat) ==
    LET first == MaterialTargets(mach, MATERIAL_BASELINES(mat), PlanPreset(mach, mat))
    IN  [nozzle_temp |-> first.nozzle_temp, bed_temp |-> first.bed_temp,
         fan_speed |-> first.fan_speed]

\* lines 558-626; the values of lines 571-573 and base_targets are kept
_build_plan(mach, mat, issue) ==
    [start |-> StartTargets(mach, mat),
     base_targets |-> BaseTargets(mach, mat),
     targets |-> _apply_issue_deltas(BaseTargets(mach, mat), issue),
     recommendations |-> DEFAULT_RECOMMENDATIONS \o Tips(issue),
     capability_notes |-> _capability_notes(mach, PlanMotion(mach))]

----------------------------------------------------------------------------
(* DiagnosticPipeline.predict_image: server/app/ml/pipeline.py *)

\* line 352
TopIssue(items) == IF items # <<>> THEN items[1].issue_id ELSE Chars("general_tuning")

\* lines 361-362
MergedRecommendations(items, recommendations) ==
    IF Len(items) > 1 /\ items[2].confidence + 5000 >= items[1].confidence
    THEN _merge_recommendations(recommendations, items[2].issue_id)
    ELSE recommendations

\* a heatmap is rendered for every image
Heatmap_Always(found) == "png"

\* line 354: _build_heatmap returns a PNG data URL
Heatmap(found) == IF found # <<>> THEN "png" ELSE "None"

\* lines 353-371
ImageAnalysisResult(items, found, planned_targets) ==
    [raised |-> FALSE,
     predictions |-> items,
     boxes |-> found,
     heatmap |-> Heatmap(found),
     parameter_targets |-> planned_targets.targets,
     recommendations |-> MergedRecommendations(items, planned_targets.recommendations),
     capability_notes |-> planned_targets.capability_notes]

\* lines 351-359
AnalysisOf(heat, items, mach, mat) ==
    ImageAnalysisResult(items, _build_boxes(heat, items),
                        _build_plan(mach, mat, TopIssue(items)))

NoAnalysis ==
    [raised |-> FALSE, predictions |-> <<>>, boxes |-> <<>>, heatmap |-> "None",
     parameter_targets |-> <<>>, recommendations |-> <<>>, capability_notes |-> <<>>]

\* lines 340-371; heat is the activation map of the image, ps and ls what
\* the classifier returned for it
predict_image(heat, ps, ls, mach, mat) ==
    IF _build_predictions(ps, ls, mach).raised
    THEN [NoAnalysis EXCEPT !.raised = TRUE]
    ELSE AnalysisOf(heat, _build_predictions(ps, ls, mach).predictions, mach, mat)

----------------------------------------------------------------------------
(* Inputs *)

Tiers == {"Beginner", "Intermediate", "Advanced"}

\* the experience strings a request can carry: the tiers and another word
ClampTiers == Tiers \cup {"Expert"}

ParamKeys == {"nozzle_temp", "print_speed", "accel", "jerk", "doc", "custom_gcode"}

\* 400.0, 200, 1.0, 100.12345 and a text value
ParamValues ==
    {PyFloat(Whole(400)), PyInt(Whole(200)), PyFloat(Whole(1)), PyFloat(10012345),
     PyStr}

\* dicts of at most MaxParams items, keys distinct
RECURSIVE DictsOfLen(_)
DictsOfLen(n) ==
    IF n = 0 THEN {<<>>}
    ELSE {Append(d, <<k, v>>) :
            d \in DictsOfLen(n - 1), k \in ParamKeys, v \in ParamValues}

ParamDicts ==
    {d \in UNION {DictsOfLen(n) : n \in 0..MaxParams} :
        \A i, j \in DOMAIN d : i # j => d[i][1] # d[j][1]}

Materials == {"PLA", "ABS"}

\* predictions: each recipe at 0.9, and low or borderline confidences
PredictionPool ==
    {[issue_id |-> Chars(w), confidence |-> 90000] :
        w \in {"stringing", "under_extrusion", "ringing", "resin_peel",
               "cnc_chatter", "warping"}}
    \cup {[issue_id |-> Chars("stringing"), confidence |-> 20000],
          [issue_id |-> Chars("stringing"), confidence |-> 50000],
          [issue_id |-> Chars("warping"), confidence |-> 49900]}

RECURSIVE PredictionLists(_)
PredictionLists(n) ==
    IF n = 0 THEN {<<>>}
    ELSE PredictionLists(n - 1)
         \cup {Append(l, x) : l \in {y \in PredictionLists(n - 1) : Len(y) = n - 1},
                              x \in PredictionPool}

\* sigmoid outputs: 0.2, 0.93, 0.99996
ProbValues == {20000, 93000, 99996}

RECURSIVE ProbVectors(_)
ProbVectors(n) ==
    IF n = 0 THEN {<<>>}
    ELSE ProbVectors(n - 1)
         \cup {Append(v, x) : v \in {y \in ProbVectors(n - 1) : Len(y) = n - 1},
                              x \in ProbValues}

LabelList ==
    <<Chars("stringing"), Chars("warping"), Chars("ringing"), Chars("overheating"),
      Chars("blobs"), Chars("under_extrusion"), Chars("resin_peel"),
      Chars("cnc_chatter")>>

LabelTuples == {SubSeq(LabelList, 1, n) : n \in 0..Min2(MaxLabels, Len(LabelList))}

\* activation values of a cell: 0.0, 0.16, 1.0
BlockValues == {0, 16000, 100000}

\* the sides of the maps that vary along one axis
Sides == {side \in {16, 20, 24, 28} : side <= MaxSide}

\* one value per strip of 4 cells
Profiles == UNION {[1 .. (side \div 4) -> BlockValues] : side \in Sides}

\* 16 rows; column x takes the value of its strip
StripMapX(profile) ==
    [y \in 1 .. 16 |-> [x \in 1 .. (4 * Len(profile)) |-> profile[((x - 1) \div 4) + 1]]]

\* 16 columns; row y takes the value of its strip
StripMapY(profile) ==
    [y \in 1 .. (4 * Len(profile)) |-> [x \in 1 .. 16 |-> profile[((y - 1) \div 4) + 1]]]

UniformMap(height, width, value) ==
    [y \in 1 .. height |-> [x \in 1 .. width |-> value]]

\* maps too small for a window: below 4 on a side, or below the 16-cell window
SmallMaps ==
    {UniformMap(shape[1], shape[2], 100000) :
        shape \in {<<1, 1>>, <<3, 16>>, <<16, 3>>, <<4, 4>>, <<8, 20>>}}

\* 16 x 32 maps: windows that do not overlap exist
WideMaps ==
    {StripMapX(p) : p \in {<<100000, 100000, 100000, 100000, 0, 0, 0, 0>>,
                           <<100000, 0, 0, 0, 0, 0, 0, 100000>>,
                           <<16000, 16000, 16000, 16000, 100000, 100000, 100000, 100000>>}}

ActivationMaps ==
    {StripMapX(p) : p \in Profiles} \cup {StripMapY(p) : p \in Profiles}
    \cup SmallMaps \cup WideMaps

\* predictions as _build_predictions ranks them
RankedPool ==
    <<[issue_id |-> Chars("stringing"), confidence |-> 90000],
      [issue_id |-> Chars("warping"), confidence |-> 80000],
      [issue_id |-> Chars("ringing"), confidence |-> 70000],
      [issue_id |-> Chars("overheating"), confidence |-> 60000],
      [issue_id |-> Chars("blobs"), confidence |-> 50000]>>

RankedLists == {SubSeq(RankedPool, 1, n) : n \in 0 .. Min2(MaxRanked, Len(RankedPool))}

\* the issues handed to the planner: the ten of the delta table, a label
\* without a delta row, and the fallback
PlanIssues ==
    {Chars(w) : w \in {"stringing", "under_extrusion", "over_extrusion", "ringing",
                       "layer_shift", "warping", "poor_adhesion", "overheating",
                       "wet_filament", "dimensional_error", "blobs", "general_tuning"}}

PlanMaterials == {"PLA", "ABS", "PETG", "ASA"}

NoTargets == [start |-> <<>>, base_targets |-> <<>>, targets |-> <<>>, recommendations |-> <<>>,
              capability_notes |-> <<>>]

\* the activation map of a black image with white columns at `edges`: the
\* normalised gradient is 1.0 on an edge column and 0.0 elsewhere
EdgeMap(height, width, edges) ==
    [y \in 1 .. height |-> [x \in 1 .. width |-> IF x \in edges THEN 100000 ELSE 0]]

ImageMaps ==
    {EdgeMap(1, 1, {}), EdgeMap(3, 16, {5}), EdgeMap(16, 3, {2}), EdgeMap(8, 20, {3}),
     EdgeMap(16, 16, {}), EdgeMap(16, 16, {9}), EdgeMap(16, 20, {18}),
     EdgeMap(20, 16, {2, 3})}

\* what the linear classifier returns: as many probabilities as labels
ClassifierOutputs ==
    {out \in ProbVectors(2) \X LabelTuples : Len(out[1]) = Len(out[2]) /\ Len(out[2]) > 0}

NoPredictions == [raised |-> FALSE, predictions |-> <<>>]

NoPlan == [raised |-> FALSE, low_confidence |-> FALSE, suggestions |-> <<>>]

\* fragments of issue ids, each with the recipe substrings it holds whatever
\* the case ("string" holds "ring")
IssueParts ==
    {[text |-> Chars("string"), has |-> {"string", "ring"}],
     [text |-> Chars("Stringing"), has |-> {"string", "ring"}],
     [text |-> Chars("under"), has |-> {"under"}],
     [text |-> <<"U","n","d","e","r">>, has |-> {"under"}],
     [text |-> Chars("ring"), has |-> {"ring"}],
     [text |-> <<"R","I","N","G">>, has |-> {"ring"}],
     [text |-> Chars("peel"), has |-> {"peel"}],
     [text |-> <<"P","E","E","L">>, has |-> {"peel"}],
     [text |-> Chars("chatter"), has |-> {"chatter"}],
     [text |-> <<"C","h","a","t","t","e","r">>, has |-> {"chatter"}],
     [text |-> Chars("warping"), has |-> {}],
     [text |-> Chars("blobs"), has |-> {}]}

RECURSIVE PartLists(_)
PartLists(n) ==
    IF n = 0 THEN {<<>>}
    ELSE PartLists(n - 1)
         \cup {Append(l, x) : l \in {y \in PartLists(n - 1) : Len(y) = n - 1},
                              x \in IssueParts}

\* the issue id: the fragments joined with "_"
RECURSIVE IssueId(_)
IssueId(parts) ==
    IF parts = <<>> THEN <<>>
    ELSE IF Len(parts) = 1 THEN parts[1].text
    ELSE parts[1].text \o <<"_">> \o IssueId(Tail(parts))

NoResult ==
    [parameters |-> <<>>, hidden_parameters |-> <<>>, experience_level |-> "",
     clamped_to_machine_limits |-> FALSE, explanations |-> <<>>, raised |-> FALSE]

(* Inference backends: inference/predict.py and ml/pipeline.py *)

\* settings.py line 45 after .lower().strip() (predict.py line 39,
\* pipeline.py line 304); "tflite" stands for a word no branch names
Modes == {"linear", "torch", "onnx", "stub", "tflite"}

\* the file at MODEL_PATH (mode torch) or ONNX_MODEL_PATH (mode onnx)
ModelFiles == {"ok", "missing", "corrupt"}

\* the process environment a backend is constructed in: whether the optional
\* packages import, and the state of the model file
Environments ==
    [mode : Modes, torch : BOOLEAN, onnxruntime : BOOLEAN, model : ModelFiles]

\* settings.py lines 40-45 with no variable set, on a bare install
DefaultEnvironment ==
    [mode |-> "linear", torch |-> FALSE, onnxruntime |-> FALSE,
     model |-> "missing"]

NoEngine == [mode |-> "", torch_model |-> FALSE, error |-> "none"]

NoClassifier == [kind |-> "", error |-> "none"]

\* predict.py lines 59-90: every failure is logged and turned into mode "stub"
_setup_torch_backend(e) ==
    IF ~e.torch
    THEN [mode |-> "stub", torch_model |-> FALSE, error |-> "none"]
    ELSE IF e.model = "missing"
    THEN [mode |-> "stub", torch_model |-> FALSE, error |-> "none"]
    ELSE IF e.model = "corrupt"
    THEN [mode |-> "stub", torch_model |-> FALSE, error |-> "none"]
    ELSE [mode |-> "torch", torch_model |-> TRUE, error |-> "none"]

\* predict.py lines 38-46: InferenceEngine.__init__
InferenceEngineInit(e) ==
    IF e.mode = "torch"
    THEN _setup_torch_backend(e)
    ELSE [mode |-> e.mode, torch_model |-> FALSE, error |-> "none"]

\* predict.py lines 49-56: the backend predict takes its predictions from
PredictBackend(eng) ==
    IF eng.mode = "torch" /\ eng.torch_model THEN "torch" ELSE "stub"

\* pipeline.py lines 237-254: _TorchClassifier.__init__
TorchClassifierInit(e) ==
    IF ~e.torch THEN [kind |-> "torch", error |-> "RuntimeError"]
    ELSE IF e.model = "missing" THEN [kind |-> "torch", error |-> "RuntimeError"]
    ELSE IF e.model = "corrupt" THEN [kind |-> "torch", error |-> "LoadError"]
    ELSE [kind |-> "torch", error |-> "none"]

\* pipeline.py lines 275-289: _OnnxClassifier.__init__
OnnxClassifierInit(e) ==
    IF ~e.onnxruntime THEN [kind |-> "onnx", error |-> "RuntimeError"]
    ELSE IF e.model = "missing" THEN [kind |-> "onnx", error |-> "RuntimeError"]
    ELSE IF e.model = "corrupt" THEN [kind |-> "onnx", error |-> "LoadError"]
    ELSE [kind |-> "onnx", error |-> "none"]

\* pipeline.py lines 303-311: every mode but torch and onnx is the linear one
_resolve_classifier(e) ==
    IF e.mode = "torch" THEN TorchClassifierInit(e)
    ELSE IF e.mode = "onnx" THEN OnnxClassifierInit(e)
    ELSE [kind |-> "linear", error |-> LinearClassifierInit("ok")]

(* The multipart analyze route: app/routers/analyze_image.py *)

\* lines 86-106: how the checks ahead of the upload end
Validations == {"ok", "400", "404"}

\* lines 118-126: how load_pipeline_cls, PipelineCls() and _run_image_pipeline
\* end; _run_image_pipeline raises HTTPException itself (line 78)
PipelineOutcomes == {"none", "HTTPException", "Exception"}

\* lines 131-132 of the finally block: a mutation that unlinks only when the
\* try block ended without an exception
UnlinkRuns_OnSuccess(path, pend) == path /\ pend = "none"

\* lines 131-132: the finally block runs however the try block ended, and
\* unlinks when tmp_path is not None
UnlinkRuns(path, pend) == path

\* lines 127-130: the status the route raises for the pending exception
RaisedStatus(pend) == IF pend = "HTTPException" THEN "http_error" ELSE "500"

----------------------------------------------------------------------------
(* State machine *)

Init ==
    /\ op = "init"
    /\ machine = BaseMachine
    /\ experience = "Intermediate"
    /\ parameters = <<>>
    /\ applied = NoResult
    /\ reapplied = NoResult
    /\ material = "PLA"
    /\ predictions = <<>>
    /\ planned = NoPlan
    /\ probs = <<>>
    /\ labels = <<>>
    /\ built = NoPredictions
    /\ artifact = "ok"
    /\ singleton = 0
    /\ constructed = 0
    /\ cache = 0
    /\ loads = 0
    /\ pc = [t \in Threads |-> "idle"]
    /\ held = [t \in Threads |-> 0]
    /\ loaded = [t \in Threads |-> 0]
    /\ error = [t \in Threads |-> "none"]
    /\ calls = [t \in Threads |-> 0]
    /\ activation = <<>>
    /\ ranked = <<>>
    /\ boxes = <<>>
    /\ plan_issue = <<>>
    /\ plan_result = NoTargets
    /\ analysis = NoAnalysis
    /\ issue_parts = <<>>
    /\ env = DefaultEnvironment
    /\ engine = NoEngine
    /\ backend = "none"
    /\ classifier = NoClassifier
    /\ route_pc = "idle"
    /\ tmp_path = FALSE
    /\ tmp_file = "absent"
    /\ pending = "none"
    /\ unlinked = "none"
    /\ clamped = FALSE
    /\ outcome = "none"
    /\ selected = "none"

\* engine.clamp_to_machine(machine, parameters, experience)
Clamp ==
    /\ op = "init"
    /\ \E m \in ClampMachines, p \in ParamDicts, e \in ClampTiers :
        /\ machine' = m
        /\ parameters' = p
        /\ experience' = e
        /\ applied' = clamp_to_machine(m, p, e)
    /\ op' = "clamp"
    /\ reapplied' = NoResult
    /\ UNCHANGED <<material, predictions, planned, probs, labels, built>>
    /\ UNCHANGED serveVars
    /\ UNCHANGED pipelineVars
    /\ UNCHANGED stageVars

\* the returned parameters map is clamped again, same machine and tier
Reclamp ==
    /\ op = "clamp"
    /\ ~applied.raised
    /\ op' = "reclamp"
    /\ reapplied' = clamp_to_machine(machine, applied.parameters, experience)
    /\ UNCHANGED <<machine, experience, parameters, applied>>
    /\ UNCHANGED <<material, predictions, planned, probs, labels, built>>
    /\ UNCHANGED serveVars
    /\ UNCHANGED pipelineVars
    /\ UNCHANGED stageVars

\* suggest(predictions, meta): SuggestionPlanner(meta).plan(predictions)
Suggest ==
    /\ op = "init"
    /\ \E m \in Machines, mat \in Materials, e \in Tiers,
          items \in PredictionLists(MaxPredictions) :
        /\ machine' = m
        /\ material' = mat
        /\ experience' = e
        /\ predictions' = items
        /\ planned' = plan(m, mat, e, items)
    /\ op' = "suggest"
    /\ UNCHANGED <<parameters, applied, reapplied, probs, labels, built>>
    /\ UNCHANGED serveVars
    /\ UNCHANGED pipelineVars
    /\ UNCHANGED stageVars

\* self._build_predictions(probs, labels, machine)
BuildPredictions ==
    /\ op = "init"
    /\ \E m \in Machines, ps \in ProbVectors(MaxLabels), ls \in LabelTuples :
        /\ machine' = m
        /\ probs' = ps
        /\ labels' = ls
        /\ built' = _build_predictions(ps, ls, m)
    /\ op' = "predict"
    /\ UNCHANGED <<experience, material, parameters, applied, reapplied,
                   predictions, planned>>
    /\ UNCHANGED serveVars
    /\ UNCHANGED pipelineVars
    /\ UNCHANGED stageVars

\* the module is imported in a process whose settings name an artifact
\* (line 684: _PIPELINE_SINGLETON = None)
ImportPipeline ==
    /\ op = "init"
    /\ op' = "serve"
    /\ artifact' \in Artifacts
    /\ UNCHANGED <<singleton, constructed, cache, loads, pc, held, loaded,
                   error, calls>>
    /\ UNCHANGED requestVars
    /\ UNCHANGED pipelineVars
    /\ UNCHANGED stageVars

\* line 692: if _PIPELINE_SINGLETON is None
GetSingleton(t) ==
    /\ op = "serve"
    /\ pc[t] = "idle"
    /\ pc' = [pc EXCEPT ![t] = IF singleton = 0 THEN "construct" ELSE "return"]
    /\ UNCHANGED <<op, artifact, singleton, constructed, cache, loads, held,
                   loaded, error, calls>>
    /\ UNCHANGED requestVars
    /\ UNCHANGED pipelineVars
    /\ UNCHANGED stageVars

\* line 693, right-hand side: DiagnosticPipeline() -> _resolve_classifier()
\* -> _LinearClassifier(weight_path)
Construct(t) ==
    /\ op = "serve"
    /\ pc[t] = "construct"
    /\ IF LinearClassifierInit(artifact) = "none"
       THEN /\ constructed' = constructed + 1
            /\ held' = [held EXCEPT ![t] = constructed + 1]
            /\ pc' = [pc EXCEPT ![t] = "assign"]
            /\ UNCHANGED <<error, calls>>
       ELSE /\ error' = [error EXCEPT ![t] = LinearClassifierInit(artifact)]
            /\ calls' = [calls EXCEPT ![t] = @ + 1]
            /\ pc' = [pc EXCEPT ![t] = "failed"]
            /\ UNCHANGED <<constructed, held>>
    /\ UNCHANGED <<op, artifact, singleton, cache, loads, loaded>>
    /\ UNCHANGED requestVars
    /\ UNCHANGED pipelineVars
    /\ UNCHANGED stageVars

\* line 693, the store to the global
Assign(t) ==
    /\ op = "serve"
    /\ pc[t] = "assign"
    /\ singleton' = held[t]
    /\ pc' = [pc EXCEPT ![t] = "return"]
    /\ UNCHANGED <<op, artifact, constructed, cache, loads, held, loaded,
                   error, calls>>
    /\ UNCHANGED requestVars
    /\ UNCHANGED pipelineVars
    /\ UNCHANGED stageVars

\* line 694 and lines 709-711: the global is read again and returned
Return(t) ==
    /\ op = "serve"
    /\ pc[t] = "return"
    /\ held' = [held EXCEPT ![t] = singleton]
    /\ pc' = [pc EXCEPT ![t] = "lookup"]
    /\ UNCHANGED <<op, artifact, singleton, constructed, cache, loads, loaded,
                   error, calls>>
    /\ UNCHANGED requestVars
    /\ UNCHANGED pipelineVars
    /\ UNCHANGED stageVars

\* line 230 through lru_cache (line 211): a hit returns the cached tuple
Lookup(t) ==
    /\ op = "serve"
    /\ pc[t] = "lookup"
    /\ IF cache # 0
       THEN /\ loaded' = [loaded EXCEPT ![t] = cache]
            /\ calls' = [calls EXCEPT ![t] = @ + 1]
            /\ pc' = [pc EXCEPT ![t] = "done"]
       ELSE /\ pc' = [pc EXCEPT ![t] = "load"]
            /\ UNCHANGED <<loaded, calls>>
    /\ UNCHANGED <<op, artifact, singleton, constructed, cache, loads, held,
                   error>>
    /\ UNCHANGED requestVars
    /\ UNCHANGED pipelineVars
    /\ UNCHANGED stageVars

\* lines 212-225: a miss runs the body of _load
Load(t) ==
    /\ op = "serve"
    /\ pc[t] = "load"
    /\ loads' = loads + 1
    /\ IF LoadOutcome(artifact) = "none"
       THEN /\ loaded' = [loaded EXCEPT ![t] = loads + 1]
            /\ pc' = [pc EXCEPT ![t] = "store"]
            /\ UNCHANGED <<error, calls>>
       ELSE /\ error' = [error EXCEPT ![t] = LoadOutcome(artifact)]
            /\ calls' = [calls EXCEPT ![t] = @ + 1]
            /\ pc' = [pc EXCEPT ![t] = "failed"]
            /\ UNCHANGED loaded
    /\ UNCHANGED <<op, artifact, singleton, constructed, cache, held>>
    /\ UNCHANGED requestVars
    /\ UNCHANGED pipelineVars
    /\ UNCHANGED stageVars

\* lru_cache after the call: the result is stored unless the key was added
\* meanwhile; the caller gets the tuple it computed
Store(t) ==
    /\ op = "serve"
    /\ pc[t] = "store"
    /\ cache' = IF cache = 0 THEN loaded[t] ELSE cache
    /\ calls' = [calls EXCEPT ![t] = @ + 1]
    /\ pc' = [pc EXCEPT ![t] = "done"]
    /\ UNCHANGED <<op, artifact, singleton, constructed, loads, held, loaded,
                   error>>
    /\ UNCHANGED requestVars
    /\ UNCHANGED pipelineVars
    /\ UNCHANGED stageVars

\* the thread serves its next request: predict_image is called again
NextCall(t) ==
    /\ op = "serve"
    /\ pc[t] \in {"done", "failed"}
    /\ calls[t] < MaxCalls
    /\ pc' = [pc EXCEPT ![t] = "idle"]
    /\ error' = [error EXCEPT ![t] = "none"]
    /\ UNCHANGED <<op, artifact, singleton, constructed, cache, loads, held,
                   loaded, calls>>
    /\ UNCHANGED requestVars
    /\ UNCHANGED pipelineVars
    /\ UNCHANGED stageVars

Serve ==
    \E t \in Threads :
        \/ GetSingleton(t)
        \/ Construct(t)
        \/ Assign(t)
        \/ Return(t)
        \/ Lookup(t)
        \/ Load(t)
        \/ Store(t)
        \/ NextCall(t)

\* self._build_boxes(activation_map, predictions)
BuildBoxes ==
    /\ op = "init"
    /\ \E heat \in ActivationMaps, items \in RankedLists :
        /\ activation' = heat
        /\ ranked' = items
        /\ boxes' = _build_boxes(heat, items)
    /\ op' = "boxes"
    /\ UNCHANGED requestVars
    /\ UNCHANGED <<plan_issue, plan_result, analysis>>
    /\ UNCHANGED serveVars
    /\ UNCHANGED stageVars

\* self._build_plan(machine, material, issue)
BuildPlan ==
    /\ op = "init"
    /\ \E m \in PlanMachines, mat \in PlanMaterials, name \in PlanIssues :
        /\ machine' = m
        /\ material' = mat
        /\ plan_issue' = name
        /\ plan_result' = _build_plan(m, mat, name)
    /\ op' = "plan"
    /\ UNCHANGED <<experience, parameters, applied, reapplied, predictions, planned,
                   probs, labels, built>>
    /\ UNCHANGED <<activation, ranked, boxes, analysis>>
    /\ UNCHANGED serveVars
    /\ UNCHANGED stageVars

\* pipeline.predict_image(image_path, machine, material)
PredictImage ==
    /\ op = "init"
    /\ \E m \in Machines, mat \in Materials, heat \in ImageMaps,
          out \in ClassifierOutputs :
        /\ machine' = m
        /\ material' = mat
        /\ activation' = heat
        /\ probs' = out[1]
        /\ labels' = out[2]
        /\ analysis' = predict_image(heat, out[1], out[2], m, mat)
    /\ op' = "image"
    /\ UNCHANGED <<experience, parameters, applied, reapplied, predictions, planned,
                   built>>
    /\ UNCHANGED <<ranked, boxes, plan_issue, plan_result>>
    /\ UNCHANGED serveVars
    /\ UNCHANGED stageVars

\* self._handler_for_issue(prediction.issue_id)
HandlerForIssue ==
    /\ op = "init"
    /\ \E parts \in PartLists(MaxParts) :
        /\ issue_parts' = parts
        /\ selected' = _handler_for_issue(IssueId(parts))
    /\ op' = "handler"
    /\ UNCHANGED requestVars
    /\ UNCHANGED serveVars
    /\ UNCHANGED pipelineVars
    /\ UNCHANGED backendVars
    /\ UNCHANGED routeVars

\* services.py line 7: INFERENCE_ENGINE = InferenceEngine()
EngineInit ==
    /\ op = "init"
    /\ \E e \in Environments :
        /\ env' = e
        /\ engine' = InferenceEngineInit(e)
    /\ op' = "engine"
    /\ UNCHANGED <<backend, classifier>>
    /\ UNCHANGED <<issue_parts, selected>>
    /\ UNCHANGED routeVars
    /\ UNCHANGED requestVars
    /\ UNCHANGED serveVars
    /\ UNCHANGED pipelineVars

\* predict.py lines 49-56: INFERENCE_ENGINE.predict(image_path)
EnginePredict ==
    /\ op = "engine"
    /\ engine.error = "none"
    /\ backend' = PredictBackend(engine)
    /\ op' = "engine_predict"
    /\ UNCHANGED <<env, engine, classifier>>
    /\ UNCHANGED <<issue_parts, selected>>
    /\ UNCHANGED routeVars
    /\ UNCHANGED requestVars
    /\ UNCHANGED serveVars
    /\ UNCHANGED pipelineVars

\* pipeline.py line 323: DiagnosticPipeline.__init__ calls _resolve_classifier()
ResolveClassifier ==
    /\ op = "init"
    /\ \E e \in Environments :
        /\ env' = e
        /\ classifier' = _resolve_classifier(e)
    /\ op' = "classifier"
    /\ UNCHANGED <<engine, backend>>
    /\ UNCHANGED <<issue_parts, selected>>
    /\ UNCHANGED routeVars
    /\ UNCHANGED requestVars
    /\ UNCHANGED serveVars
    /\ UNCHANGED pipelineVars

\* lines 82-106: the request arrives; meta and the machine id are checked
RouteRequest ==
    /\ op = "init"
    /\ op' = "route"
    /\ \E v \in Validations :
        IF v = "ok"
        THEN /\ route_pc' = "create"
             /\ UNCHANGED outcome
        ELSE /\ route_pc' = "done"
             /\ outcome' = v
    /\ UNCHANGED <<tmp_path, tmp_file, pending, unlinked, clamped>>
    /\ UNCHANGED <<issue_parts, selected>>
    /\ UNCHANGED backendVars
    /\ UNCHANGED requestVars
    /\ UNCHANGED serveVars
    /\ UNCHANGED pipelineVars

\* lines 111-116: NamedTemporaryFile(delete=False) and the copy of the upload
CreateTemp ==
    /\ op = "route"
    /\ route_pc = "create"
    /\ \/ /\ pending' = "Exception"       \* the file cannot be created
          /\ route_pc' = "finally"
          /\ UNCHANGED <<tmp_path, tmp_file>>
       \/ /\ tmp_path' = TRUE             \* created, the copy fails
          /\ tmp_file' = "present"
          /\ pending' = "Exception"
          /\ route_pc' = "finally"
       \/ /\ tmp_path' = TRUE             \* created and copied
          /\ tmp_file' = "present"
          /\ route_pc' = "pipeline"
          /\ UNCHANGED pending
    /\ UNCHANGED <<op, unlinked, clamped, outcome>>
    /\ UNCHANGED <<issue_parts, selected>>
    /\ UNCHANGED backendVars
    /\ UNCHANGED requestVars
    /\ UNCHANGED serveVars
    /\ UNCHANGED pipelineVars

\* lines 118-126: the pipeline is built and run on tmp_path
RunPipeline ==
    /\ op = "route"
    /\ route_pc = "pipeline"
    /\ pending' \in PipelineOutcomes
    /\ route_pc' = "finally"
    /\ UNCHANGED <<op, tmp_path, tmp_file, unlinked, clamped, outcome>>
    /\ UNCHANGED <<issue_parts, selected>>
    /\ UNCHANGED backendVars
    /\ UNCHANGED requestVars
    /\ UNCHANGED serveVars
    /\ UNCHANGED pipelineVars

\* another process removes the file from UPLOAD_DIR while the route works,
\* the case line 135 is written for
Sweep ==
    /\ op = "route"
    /\ route_pc \in {"pipeline", "finally"}
    /\ tmp_file = "present"
    /\ tmp_file' = "absent"
    /\ UNCHANGED <<op, route_pc, tmp_path, pending, unlinked, clamped, outcome>>
    /\ UNCHANGED <<issue_parts, selected>>
    /\ UNCHANGED backendVars
    /\ UNCHANGED requestVars
    /\ UNCHANGED serveVars
    /\ UNCHANGED pipelineVars

\* lines 127-138: the except clauses pick the exception to raise and the
\* finally block unlinks tmp_path, swallowing FileNotFoundError and OSError
Finally ==
    /\ op = "route"
    /\ route_pc = "finally"
    /\ IF UnlinkRuns(tmp_path, pending)
       THEN IF tmp_file = "absent"
            THEN /\ unlinked' = "FileNotFoundError"
                 /\ UNCHANGED tmp_file
            ELSE \/ /\ unlinked' = "ok"
                    /\ tmp_file' = "absent"
                 \/ /\ unlinked' = "OSError"
                    /\ UNCHANGED tmp_file
       ELSE UNCHANGED <<unlinked, tmp_file>>
    /\ IF pending = "none"
       THEN /\ route_pc' = "clamp"
            /\ UNCHANGED outcome
       ELSE /\ route_pc' = "done"
            /\ outcome' = RaisedStatus(pending)
    /\ UNCHANGED <<op, tmp_path, pending, clamped>>
    /\ UNCHANGED <<issue_parts, selected>>
    /\ UNCHANGED backendVars
    /\ UNCHANGED requestVars
    /\ UNCHANGED serveVars
    /\ UNCHANGED pipelineVars

\* lines 140-165: clamp_to_machine and the response; an exception of
\* clamp_to_machine is not caught by the route
Respond ==
    /\ op = "route"
    /\ route_pc = "clamp"
    /\ clamped' = TRUE
    /\ outcome' \in {"200", "500"}
    /\ route_pc' = "done"
    /\ UNCHANGED <<op, tmp_path, tmp_file, pending, unlinked>>
    /\ UNCHANGED <<issue_parts, selected>>
    /\ UNCHANGED backendVars
    /\ UNCHANGED requestVars
    /\ UNCHANGED serveVars
    /\ UNCHANGED pipelineVars

Next == Clamp \/ Reclamp \/ Suggest \/ BuildPredictions \/ ImportPipeline \/ Serve
        \/ BuildBoxes \/ BuildPlan \/ PredictImage \/ HandlerForIssue
        \/ EngineInit \/ EnginePredict \/ ResolveClassifier
        \/ RouteRequest \/ CreateTemp \/ RunPipeline \/ Sweep \/ Finally
        \/ Respond

Spec == Init /\ [][Next]_vars

----------------------------------------------------------------------------
(* Properties of the Clamp Engine *)

Rank(name) == CHOOSE i \in DOMAIN NameOrder : NameOrder[i] = name

\* Python's == on two dicts: same keys, equal values (200 == 200.0)
DictEq(a, b) ==
    /\ Keys(a) = Keys(b)
    /\ \A key \in Keys(a) :
        LET x == Get(a, key)
            y == Get(b, key)
        IN  IF IsNumber(x) /\ IsNumber(y) THEN x.n = y.n ELSE x = y

\* the tier factor in percent, as the specification declares it
TierFactor(exp) ==
    CASE exp = "Beginner" -> 85
      [] exp = "Intermediate" -> 95
      [] OTHER -> 100

\* clamp_to_machine has returned a result
Clamped == op \in {"clamp", "reclamp"} /\ ~applied.raised

\* C1: every numeric value clamp_to_machine returns for a parameter with a
\* declared bound is >= the declared minimum and <= the declared maximum
\* times the tier factor, also when the minimum exceeds maximum x factor.
C1_WithinDeclaredBounds ==
    Clamped =>
        \A i \in DOMAIN applied.parameters :
            LET key == applied.parameters[i][1]
                value == applied.parameters[i][2]
                bounds == _bounds_for(machine, key)
            IN  IsNumber(value) =>
                    /\ IsNumber(bounds[1]) => value.n >= bounds[1].n
                    /\ IsNumber(bounds[2]) =>
                        value.n <= MulPct(bounds[2].n, TierFactor(experience))

\* C2: at tier Beginner the returned parameters map has no key outside
\* {nozzle_temp, bed_temp, print_speed, fan_speed, flow_rate}; at tier
\* Advanced every input key is kept.
C2_TierFilter ==
    Clamped =>
        /\ experience = "Beginner" =>
            Keys(applied.parameters) \subseteq
                {"nozzle_temp", "bed_temp", "print_speed", "fan_speed", "flow_rate"}
        /\ experience = "Advanced" =>
            Keys(applied.parameters) = Keys(parameters)

C2_Witness ==
    /\ op = "clamp"
    /\ experience = "Beginner"
    /\ "accel" \in Keys(parameters)
    /\ "custom_gcode" \in Keys(parameters)
    /\ applied.hidden_parameters # <<>>

\* C3: clamping the returned parameters map again, same machine and tier,
\* is a no-op: same parameters map, nothing hidden, no clamp action fires
\* (flag false, explanations hold only the tier note).
C3_Idempotent ==
    op = "reclamp" =>
        /\ DictEq(reapplied.parameters, applied.parameters)
        /\ reapplied.hidden_parameters = <<>>
        /\ reapplied.clamped_to_machine_limits = FALSE
        /\ reapplied.explanations = <<SettingsFor(experience).note>>

\* the range a declared pair of bounds leaves at a tier
BelowMin(value, bounds) == IsNumber(bounds[1]) /\ value.n < bounds[1].n
AboveMax(value, bounds, exp) ==
    IsNumber(bounds[2]) /\ value.n > MulPct(bounds[2].n, TierFactor(exp))

\* C4: for each allowed numeric parameter a value below the declared minimum
\* becomes the minimum, a value above maximum x factor becomes exactly
\* maximum x factor, a value inside the range is returned unchanged; with
\* max nozzle 300, print range [10, 250], {nozzle_temp: 400, print_speed: 400}
\* and Intermediate the result is 285 and 237.5 with the flag set.
C4_ExactClamp ==
    Clamped =>
        /\ \A i \in DOMAIN applied.parameters :
            LET key == applied.parameters[i][1]
                out == applied.parameters[i][2]
                value == Get(parameters, key)
                bounds == _bounds_for(machine, key)
            IN  IsNumber(value) =>
                    IF BelowMin(value, bounds) THEN out.n = bounds[1].n
                    ELSE IF AboveMax(value, bounds, experience)
                    THEN out.n = MulPct(bounds[2].n, TierFactor(experience))
                    ELSE out.n = value.n
        /\ ( /\ machine = CoreXYMachine
             /\ experience = "Intermediate"
             /\ parameters = <<<<"nozzle_temp", PyFloat(Whole(400))>>,
                               <<"print_speed", PyFloat(Whole(400))>>>> )
           => /\ Get(applied.parameters, "nozzle_temp").n = Whole(285)
              /\ Get(applied.parameters, "print_speed").n = Milli(237500)
              /\ applied.clamped_to_machine_limits

\* C5: every input key is in exactly one of parameters and
\* hidden_parameters; hidden_parameters is exactly the input keys off the
\* tier's allow-list, ascending and without duplicates; parameters holds the
\* remaining keys.
C5_Partition ==
    Clamped =>
        LET hid == Elems(applied.hidden_parameters)
            kept == Keys(applied.parameters)
            settings == SettingsFor(experience)
            off == {key \in Keys(parameters) :
                        ~settings.all /\ key \notin settings.allowed}
        IN  /\ hid \cap kept = {}
            /\ hid = off
            /\ kept = Keys(parameters) \ off
            /\ Len(applied.parameters) = Cardinality(kept)
            /\ \A i, j \in DOMAIN applied.hidden_parameters :
                i < j => Rank(applied.hidden_parameters[i])
                            < Rank(applied.hidden_parameters[j])

C5_Witness ==
    /\ op = "clamp"
    /\ experience = "Beginner"
    /\ Len(applied.hidden_parameters) = 2
    /\ parameters[1][1] = "jerk"
    /\ parameters[2][1] = "accel"

----------------------------------------------------------------------------
(* Properties of the Suggestion Composer *)

Suggested == op = "suggest"

AllBelowThreshold(items) == \A i \in DOMAIN items : items[i].confidence < 50000

\* C6: plan returns low_confidence = true with exactly one "general_tuning"
\* suggestion iff the prediction list is empty or every confidence is
\* < 0.5; otherwise low_confidence = false and one suggestion per
\* prediction, in input order, with that prediction's issue_id and
\* confidence.
C6_LowConfidencePolicy ==
    Suggested =>
        /\ ~planned.raised
        /\ IF predictions = <<>> \/ AllBelowThreshold(predictions)
           THEN /\ planned.low_confidence
                /\ Len(planned.suggestions) = 1
                /\ planned.suggestions[1].issue_id = Chars("general_tuning")
           ELSE /\ ~planned.low_confidence
                /\ Len(planned.suggestions) = Len(predictions)
                /\ \A i \in DOMAIN predictions :
                    /\ planned.suggestions[i].issue_id = predictions[i].issue_id
                    /\ planned.suggestions[i].confidence = predictions[i].confidence

\* C7: for every machine type, tier and prediction list, plan completes
\* without raising and returns a non-empty suggestion list.
C7_NeverRaisesNeverEmpty ==
    Suggested => ~planned.raised /\ planned.suggestions # <<>>

ChangeParams(suggestion) ==
    {suggestion.changes[i].param : i \in DOMAIN suggestion.changes}

Unclamped(suggestion) ==
    {suggestion.adjustments[j].param :
        j \in {x \in DOMAIN suggestion.adjustments :
                ~suggestion.adjustments[x].requires_clamp}}

C9_SuggestionsWithinBounds ==
    Suggested =>
        \A i \in DOMAIN planned.suggestions :
            LET suggestion == planned.suggestions[i]
                result == suggestion.applied
                baseline == _baseline(machine, material)
            IN  /\ \A j \in DOMAIN suggestion.changes :
                    LET change == suggestion.changes[j]
                        bounds == _bounds_for(machine, change.param)
                    IN  /\ IsNumber(bounds[1]) => change.new_target.n >= bounds[1].n
                        /\ IsNumber(bounds[2]) =>
                            change.new_target.n
                                <= MulPct(bounds[2].n, TierFactor(experience))
                        /\ (change.param \in DOMAIN baseline
                                /\ (IsNumber(bounds[1]) \/ IsNumber(bounds[2])))
                            => change.delta.n = change.new_target.n - baseline[change.param]
                /\ suggestion.clamped_to_machine_limits
                    <=> \E key \in Keys(result.parameters) :
                            Get(result.parameters, key).n
                                # Get(suggestion.clamp_inputs, key).n

----------------------------------------------------------------------------
(* Properties of the prediction builder *)

\* C10: the list _build_predictions returns has at most 5 entries, is in
\* non-increasing order of confidence, and every confidence is in [0, 1]
\* also after the machine boosts (each capped at 0.995); a probability
\* vector whose length differs from the label count is rejected with an
\* error, not truncated.
C10_RankedPredictions ==
    op = "predict" =>
        IF Len(probs) # Len(labels)
        THEN built.raised /\ built.predictions = <<>>
        ELSE /\ ~built.raised
             /\ Len(built.predictions) = Min2(5, Len(labels))
             /\ \A i, j \in DOMAIN built.predictions :
                    i < j => built.predictions[i].confidence
                                >= built.predictions[j].confidence
             /\ \A i \in DOMAIN built.predictions :
                    /\ built.predictions[i].confidence >= 0
                    /\ built.predictions[i].confidence <= 100000
                    /\ \E k \in DOMAIN labels :
                        built.predictions[i].issue_id = labels[k]

C10_Witness ==
    /\ op = "predict"
    /\ machine = BowdenMachine
    /\ Len(probs) = 6
    /\ probs[1] = 93000
    /\ probs[6] = 99996
    /\ Len(built.predictions) = 5
    /\ built.predictions[1] = [issue_id |-> Chars("under_extrusion"), confidence |-> 100000]
    /\ built.predictions[2] = [issue_id |-> Chars("stringing"), confidence |-> 99500]

----------------------------------------------------------------------------
(* Properties of classifier loading and the pipeline singleton *)

\* C11: a missing, malformed or mismatched artifact makes the construction
\* of the classifier adapter fail, so that no pipeline exists for it; once
\* a pipeline is constructed no predict call ends with a load error; and a
\* failed load is not attempted again.
C11_FailsAtConstruction ==
    /\ artifact # "ok" => constructed = 0
    /\ constructed > 0 => \A t \in Threads : pc[t] # "failed"
    /\ artifact # "ok" => loads <= 1

\* C12: under every interleaving of concurrent first-use callers the
\* artifact is read and parsed at most once, one pipeline singleton is
\* constructed, and all callers observe the same loaded value.
C12_LoadedOnce ==
    /\ artifact = "ok" => loads <= 1
    /\ constructed <= 1
    /\ \A s, t \in Threads :
        pc[s] = "done" /\ pc[t] = "done" => loaded[s] = loaded[t]

----------------------------------------------------------------------------
(* Properties of localisation *)

Boxed == op = "boxes"

\* C13: _build_boxes returns at most min(3, number of predictions) boxes,
\* the i-th box carries the issue_id of the i-th prediction, and every box
\* lies inside the unit square after rounding: x >= 0, y >= 0, width > 0,
\* height > 0, x + width <= 1 and y + height <= 1.
C13_BoxesInsideUnitSquare ==
    Boxed =>
        /\ Len(boxes) <= Min2(3, Len(ranked))
        /\ \A i \in DOMAIN boxes :
            /\ boxes[i].issue_id = ranked[i].issue_id
            /\ boxes[i].x >= 0 /\ boxes[i].y >= 0
            /\ boxes[i].width > 0 /\ boxes[i].height > 0
            /\ boxes[i].x + boxes[i].width <= 100000
            /\ boxes[i].y + boxes[i].height <= 100000

\* three boxes, the last one ending at the right edge of a 16 x 20 map
C13_Witness ==
    /\ Boxed
    /\ Len(boxes) = 3
    /\ MapWidth(activation) = 20
    /\ boxes[3].x > 0
    /\ boxes[3].x + boxes[3].width = 100000

Uniform(heat) == \A y \in DOMAIN heat : \A x \in DOMAIN heat[y] : heat[y][x] = heat[1][1]

SamePlace(a, b) == a.x = b.x /\ a.y = b.y /\ a.width = b.width /\ a.height = b.height

\* C14: for a non-uniform activation map that yields two or more boxes,
\* each box differs in position from the box picked immediately before it.
C14_ConsecutiveBoxesDiffer ==
    Boxed /\ ~Uniform(activation) =>
        \A i \in DOMAIN boxes : i > 1 => ~SamePlace(boxes[i], boxes[i - 1])

Overlap(a, b) ==
    /\ a.x < b.x + b.width /\ b.x < a.x + a.width
    /\ a.y < b.y + b.height /\ b.y < a.y + a.height

\* C15: the boxes returned for one image are pairwise non-overlapping.
C15_BoxesDisjoint ==
    Boxed => \A i, j \in DOMAIN boxes : i # j => ~Overlap(boxes[i], boxes[j])

----------------------------------------------------------------------------
(* Properties of predict_image and the Baseline Planner *)

Analysed == op = "image"

Degenerate(heat) == MapHeight(heat) < 4 \/ MapWidth(heat) < 4

TargetNames ==
    {"nozzle_temp", "bed_temp", "fan_speed", "flow_rate", "retraction_distance",
     "print_speed", "travel_speed", "accel", "jerk"}

\* C16: for an image whose height or width is below 4, predict_image
\* returns an empty box list and no heatmap and still returns predictions,
\* parameter_targets, recommendations and capability_notes; over all inputs
\* the heatmap is None exactly when the box list is empty.
C16_DegenerateImage ==
    Analysed =>
        /\ Degenerate(activation) =>
            /\ ~analysis.raised
            /\ analysis.boxes = <<>>
            /\ analysis.heatmap = "None"
            /\ Len(analysis.predictions) = Min2(5, Len(labels))
            /\ DOMAIN analysis.parameter_targets = TargetNames
            /\ Len(analysis.recommendations) >= 2
            /\ analysis.capability_notes # <<>>
        /\ analysis.heatmap = "None" <=> analysis.boxes = <<>>

\* a 3 x 16 image analysed with two predictions
C16_Witness ==
    /\ Analysed
    /\ MapHeight(activation) = 3
    /\ Len(analysis.predictions) = 2
    /\ analysis.heatmap = "None"

Planned == op = "plan"

DeltaOf(deltas, key) ==
    IF \E i \in DOMAIN deltas : deltas[i][1] = key
    THEN deltas[CHOOSE i \in DOMAIN deltas : deltas[i][1] = key][2]
    ELSE 0

\* a value after the range restriction of the planner, rounded to 3 decimals
Restricted(key, value) ==
    LET low == IF value < 0 THEN 0 ELSE value
        high == IF key \in {"fan_speed", "flow_rate"} /\ low > 10000000
                THEN 10000000 ELSE low
    IN  Round3(high)

\* C17: the planner's map differs from the pre-delta baseline map only at
\* the parameters of the issue's delta row, where it is baseline + delta,
\* range-restricted and rounded; an unknown issue returns the baseline
\* unchanged; stringing with baseline nozzle_temp 210 plans 202.
C17_DeltasOnly ==
    Planned =>
        /\ DOMAIN plan_result.targets = DOMAIN plan_result.base_targets
        /\ \A key \in DOMAIN plan_result.base_targets :
            IF key \in Keys(ISSUE_PARAM_DELTAS(plan_issue))
            THEN plan_result.targets[key] =
                    Restricted(key, plan_result.base_targets[key]
                                    + DeltaOf(ISSUE_PARAM_DELTAS(plan_issue), key))
            ELSE plan_result.targets[key] = plan_result.base_targets[key]
        /\ plan_issue = Chars("general_tuning") =>
            plan_result.targets = plan_result.base_targets
        /\ (plan_issue = Chars("stringing")
            /\ plan_result.base_targets.nozzle_temp = Whole(210)) =>
            plan_result.targets.nozzle_temp = Whole(202)

\* stringing planned from a baseline nozzle_temp of 210
C17_Witness ==
    /\ Planned
    /\ plan_issue = Chars("stringing")
    /\ plan_result.base_targets.nozzle_temp = Whole(210)
    /\ plan_result.targets.nozzle_temp = Whole(202)
    /\ plan_result.targets.jerk = plan_result.base_targets.jerk

----------------------------------------------------------------------------
(* Properties of the Clamp Engine on non-numeric data and of its explanations *)

ClampCalled == op \in {"clamp", "reclamp"}

\* C18: clamp_to_machine never raises on non-numeric data: a non-numeric
\* value of an allowed parameter is returned unchanged and neither sets
\* clamped_to_machine_limits nor adds an explanation, and a machine bound
\* that is missing or non-numeric is no bound on that side.
C18_NonNumericPassThrough ==
    ClampCalled =>
        /\ ~applied.raised
        /\ \A i \in DOMAIN parameters :
            (~IsNumber(parameters[i][2])
             /\ parameters[i][1] \in Keys(applied.parameters)) =>
                Get(applied.parameters, parameters[i][1]) = parameters[i][2]
        /\ (\A i \in DOMAIN parameters : ~IsNumber(parameters[i][2])) =>
            /\ ~applied.clamped_to_machine_limits
            /\ Len(applied.explanations) = 1
        /\ (machine = TextLimitsMachine /\ parameters # <<>>
            /\ \A i \in DOMAIN parameters :
                parameters[i][1] \in {"nozzle_temp", "print_speed"}) =>
            /\ ~applied.clamped_to_machine_limits
            /\ Len(applied.explanations) = 1

\* the number of raise and lower actions the bounds of the machine call for
\* on one input parameter
ActionsOn(mach, exp, key, value) ==
    LET settings == SettingsFor(exp)
        bounds == _bounds_for(mach, key)
        effective_max == EffectiveMax(bounds[2], settings.max_factor)
        low == IsNumber(bounds[1]) /\ value.n < bounds[1].n
        reached == IF low THEN bounds[1].n ELSE value.n
        high == IsNumber(effective_max) /\ reached > effective_max.n
    IN  IF IsHidden(settings, key) \/ ~IsNumber(value) THEN 0
        ELSE (IF low THEN 1 ELSE 0) + (IF high THEN 1 ELSE 0)

RECURSIVE ActionsFrom(_, _, _, _)
ActionsFrom(mach, exp, params, i) ==
    IF i > Len(params) THEN 0
    ELSE ActionsOn(mach, exp, params[i][1], params[i][2])
            + ActionsFrom(mach, exp, params, i + 1)

\* C19: in every clamp_to_machine result explanations[0] is the tier note,
\* every raise-to-minimum or lower-to-maximum action adds exactly one
\* explanation after it, clamped_to_machine_limits is true iff explanations
\* has more than one entry, and a hidden parameter neither sets the flag nor
\* adds an explanation; a suggestion carries the flag and the entries after
\* the note of its clamp result.
C19_ExplanationsMatchFlag ==
    /\ Clamped =>
        /\ Len(applied.explanations) >= 1
        /\ applied.explanations[1] = SettingsFor(experience).note
        /\ Len(applied.explanations)
                = 1 + ActionsFrom(machine, experience, parameters, 1)
        /\ applied.clamped_to_machine_limits <=> Len(applied.explanations) > 1
        /\ \A j \in 2..Len(applied.explanations) :
            /\ applied.explanations[j][1] \in {"Raised", "Reduced"}
            /\ applied.explanations[j][2] \in Keys(applied.parameters)
            /\ applied.explanations[j][2] \notin Elems(applied.hidden_parameters)
        /\ Keys(applied.parameters) = {} =>
            /\ ~applied.clamped_to_machine_limits
            /\ Len(applied.explanations) = 1
    /\ (Suggested /\ ~planned.raised) =>
        \A i \in DOMAIN planned.suggestions :
            LET suggestion == planned.suggestions[i]
            IN  /\ suggestion.clamped_to_machine_limits
                    <=> Len(suggestion.applied.explanations) > 1
                /\ suggestion.why_suffix = Tail(suggestion.applied.explanations)

\* one parameter raised and then lowered, one hidden
C19_Witness ==
    /\ op = "clamp"
    /\ ~applied.raised
    /\ experience = "Beginner"
    /\ Len(applied.explanations) = 3
    /\ applied.explanations[2][1] = "Raised"
    /\ applied.explanations[3][1] = "Reduced"
    /\ applied.hidden_parameters = <<"custom_gcode">>
    /\ applied.clamped_to_machine_limits

----------------------------------------------------------------------------
(* Properties of the recipes *)

\* the baseline a handler reads
RecipeBaseline(handler, mach, mat) ==
    IF handler = "_resin_peel" THEN _baseline_resin(mach, mat)
    ELSE IF handler = "_cnc_chatter" THEN _baseline_cnc(mach)
    ELSE _baseline(mach, mat)

\* the recipe of a handler on a given baseline
RecipeOn(handler, mach, baseline) ==
    CASE handler = "_stringing" -> _stringing(mach, baseline)
      [] handler = "_under_extrusion" -> _under_extrusion(mach, baseline)
      [] handler = "_ringing" -> _ringing(mach, baseline)
      [] handler = "_resin_peel" -> ResinPeelAdjustments(baseline)
      [] handler = "_cnc_chatter" -> CncChatterAdjustments(baseline)
      [] OTHER -> _general_best_practice(baseline)

HandlerOf(suggestion) ==
    IF planned.low_confidence THEN "_general_best_practice"
    ELSE _handler_for_issue(suggestion.issue_id)

BaselineShift == Whole(20)

Scales == 1..200

\* target j of the handler follows the baseline value of its parameter: with
\* that value moved by BaselineShift the target moves by the same amount
\* (baseline plus an offset) or keeps its ratio (baseline times a scale)
FollowsBaseline(handler, mach, baseline, j) ==
    LET adjustment == RecipeOn(handler, mach, baseline).adjustments[j]
        param == adjustment.param
    IN  /\ param \in DOMAIN baseline
        /\ LET moved == [baseline EXCEPT ![param] = @ + BaselineShift]
               target == adjustment.target.n
               again == RecipeOn(handler, mach, moved).adjustments[j].target.n
           IN  \/ again = target + BaselineShift
               \/ \E pct \in Scales :
                    /\ target = MulPct(baseline[param], pct)
                    /\ again = MulPct(moved[param], pct)

\* C20: in every recipe of the Suggestion Composer each target sent to the
\* Clamp Engine is computed from the machine baseline value of the same
\* parameter (baseline plus an offset or baseline times a scale); no target
\* is a fixed number that ignores the baseline.
C20_TargetsFollowBaseline ==
    (Suggested /\ ~planned.raised) =>
        \A i \in DOMAIN planned.suggestions :
            LET suggestion == planned.suggestions[i]
                handler == HandlerOf(suggestion)
                baseline == RecipeBaseline(handler, machine, material)
            IN  /\ suggestion.adjustments
                    = RecipeOn(handler, machine, baseline).adjustments
                /\ \A j \in DOMAIN suggestion.adjustments :
                    suggestion.adjustments[j].requires_clamp =>
                        FollowsBaseline(handler, machine, baseline, j)

\* C20 without the flow_rate target of the under-extrusion recipe
C20_ExceptFlowRate ==
    (Suggested /\ ~planned.raised) =>
        \A i \in DOMAIN planned.suggestions :
            LET suggestion == planned.suggestions[i]
                handler == HandlerOf(suggestion)
                baseline == RecipeBaseline(handler, machine, material)
            IN  \A j \in DOMAIN suggestion.adjustments :
                    (suggestion.adjustments[j].requires_clamp
                     /\ suggestion.adjustments[j].param # "flow_rate") =>
                        FollowsBaseline(handler, machine, baseline, j)

----------------------------------------------------------------------------
(* Properties of the recipe selection *)

Selected == op = "handler"

\* the recipe substrings held by the fragments of the issue id
Present == UNION {issue_parts[i].has : i \in DOMAIN issue_parts}

MatchOrder == <<"string", "under", "ring", "peel", "chatter">>

HandlerNames ==
    <<"_stringing", "_under_extrusion", "_ringing", "_resin_peel", "_cnc_chatter">>

\* C21: recipe selection is a case-insensitive first match over the
\* substrings string, under, ring, peel, chatter in that order: an id that
\* contains "string" selects the stringing recipe although it contains
\* "ring", an id matching several substrings selects the earliest of the
\* order, and an id matching none selects general best-practice.
C21_FirstMatch ==
    Selected =>
        /\ "string" \in Present => selected = "_stringing"
        /\ Present = {} <=> selected = "_general_best_practice"
        /\ Present # {} =>
            \E k \in DOMAIN MatchOrder :
                /\ MatchOrder[k] \in Present
                /\ \A j \in 1..(k - 1) : MatchOrder[j] \notin Present
                /\ selected = HandlerNames[k]

\* "PEEL_under": both peel and under match, under is earlier in the order
C21_Witness ==
    /\ Selected
    /\ Len(issue_parts) = 2
    /\ issue_parts[1].text = <<"P","E","E","L">>
    /\ issue_parts[2].text = Chars("under")
    /\ selected = "_under_extrusion"

----------------------------------------------------------------------------
(* Properties of the Baseline Planner *)

\* the mean of a declared range, else the table entry
FromRange(range, fallback) == IF range # <<>> THEN Mean(range) ELSE fallback

\* C22: nozzle_temp, bed_temp and fan_speed start from the mean of the
\* machine's preset range for the requested material when the machine
\* declares a preset for that material, and from the material-default table
\* entry of the requested material otherwise (ABS on a machine that only
\* declares a PLA preset starts from 240 / 100 / 10).
C22_StartFromPresetOrTable ==
    Planned =>
        LET presets == machine.material_presets
            defaults == MATERIAL_BASELINES(material)
        IN  /\ material \in DOMAIN presets =>
                /\ plan_result.start.nozzle_temp
                    = FromRange(presets[material].nozzle_c, defaults.nozzle_temp)
                /\ plan_result.start.bed_temp
                    = FromRange(presets[material].bed_c, defaults.bed_temp)
                /\ plan_result.start.fan_speed
                    = FromRange(presets[material].fan_pct, defaults.fan_speed)
            /\ material \notin DOMAIN presets => plan_result.start = defaults
            /\ (material = "ABS" /\ DOMAIN presets = {"PLA"}) =>
                plan_result.start = [nozzle_temp |-> Whole(240),
                                     bed_temp |-> Whole(100),
                                     fan_speed |-> Whole(10)]

\* C23: in the target map the planner returns, for every issue, an
\* enclosed machine has fan_speed <= 40 and bed_temp >= material default + 3,
\* material ABS or ASA has fan_speed <= 20 and bed_temp >= the material
\* default bed temperature, and a machine supporting input shaping has
\* accel >= 6000.
C23_ModifierLimits ==
    Planned =>
        LET targets == plan_result.targets
            defaults == MATERIAL_BASELINES(material)
        IN  /\ machine.enclosed =>
                /\ targets.fan_speed <= Whole(40)
                /\ targets.bed_temp >= defaults.bed_temp + Whole(3)
            /\ material \in {"ABS", "ASA"} =>
                /\ targets.fan_speed <= Whole(20)
                /\ targets.bed_temp >= defaults.bed_temp
            /\ machine.supports.input_shaping => targets.accel >= Whole(6000)

\* C24: for every machine, material and issue every value of the map the
\* planner returns is range-restricted: fan_speed and flow_rate lie in
\* [0, 100] and every other parameter is >= 0, including the parameters the
\* issue's delta row does not touch and baselines taken from machine presets.
C24_EveryValueRestricted ==
    Planned =>
        \A key \in DOMAIN plan_result.targets :
            /\ plan_result.targets[key] >= 0
            /\ key \in {"fan_speed", "flow_rate"} =>
                plan_result.targets[key] <= Whole(100)

\* C29: the planner never returns flow_rate above 100: the flow_rate
\* baseline is always 100 and flow_rate is capped to [0, 100] after the
\* delta, so the positive deltas of under_extrusion (+8) and poor_adhesion
\* (+3) leave the planned flow_rate at 100, while the negative deltas of
\* over_extrusion (-6) and dimensional_error (-4) lower it.
C29_FlowRateCapped ==
    Planned =>
        /\ plan_result.base_targets.flow_rate = Whole(100)
        /\ plan_result.targets.flow_rate <= Whole(100)
        /\ plan_issue \in {Chars("under_extrusion"), Chars("poor_adhesion")} =>
            plan_result.targets.flow_rate = Whole(100)
        /\ plan_issue = Chars("over_extrusion") =>
            plan_result.targets.flow_rate = Whole(94)
        /\ plan_issue = Chars("dimensional_error") =>
            plan_result.targets.flow_rate = Whole(96)

\* under_extrusion planned: the +8 delta is cut back to 100, the +6 on the
\* nozzle is applied
C29_Witness ==
    /\ Planned
    /\ plan_issue = Chars("under_extrusion")
    /\ plan_result.targets.flow_rate = Whole(100)
    /\ plan_result.targets.nozzle_temp = plan_result.base_targets.nozzle_temp + Whole(6)

----------------------------------------------------------------------------
(* Properties of the localisation on small images *)

BelowWindow(heat) == MapHeight(heat) < 16 \/ MapWidth(heat) < 16

\* C27: the search window is max(16, dimension // 4) on each axis, so an
\* image whose height or width is below 16 has no candidate window and
\* yields no boxes and no heatmap, even when it is at least 4x4 and the
\* prediction list is non-empty; every image of at least 16x16 with a
\* non-empty prediction list yields at least one box.
C27_WindowNeedsSixteen ==
    /\ Boxed =>
        /\ BelowWindow(activation) => boxes = <<>>
        /\ (~BelowWindow(activation) /\ ranked # <<>>) => Len(boxes) >= 1
    /\ (Analysed /\ ~analysis.raised) =>
        /\ BelowWindow(activation) =>
            /\ analysis.boxes = <<>>
            /\ analysis.heatmap = "None"
        /\ (~BelowWindow(activation) /\ analysis.predictions # <<>>) =>
            /\ Len(analysis.boxes) >= 1
            /\ analysis.heatmap = "png"

\* an 8 x 20 image with two predictions: no box and no heatmap
C27_Witness ==
    /\ Analysed
    /\ MapHeight(activation) = 8
    /\ MapWidth(activation) = 20
    /\ Len(analysis.predictions) = 2
    /\ analysis.boxes = <<>>
    /\ analysis.heatmap = "None"

----------------------------------------------------------------------------
(* Properties of the recipes under the tier allow-lists *)

\* C28: at tiers Beginner and Intermediate the resin-peel and CNC-chatter
\* recipes always produce a suggestion with an empty change list, all their
\* parameters (lift_speed, exposure_time, feed_rate, doc, spindle_rpm) being
\* outside those allow-lists; only tier Advanced returns changes for them,
\* and the jerk change of the ringing recipe is returned only at Advanced.
C28_HiddenRecipes ==
    (Suggested /\ ~planned.raised /\ ~planned.low_confidence) =>
        /\ Len(planned.suggestions) = Len(predictions)
        /\ \A i \in DOMAIN planned.suggestions :
            LET suggestion == planned.suggestions[i]
                recipe == _handler_for_issue(predictions[i].issue_id)
            IN  /\ recipe = "_resin_peel" =>
                    IF experience = "Advanced"
                    THEN ChangeParams(suggestion) = {"lift_speed", "exposure_time"}
                    ELSE suggestion.changes = <<>>
                /\ recipe = "_cnc_chatter" =>
                    IF experience = "Advanced"
                    THEN ChangeParams(suggestion) = {"feed_rate", "doc", "spindle_rpm"}
                    ELSE suggestion.changes = <<>>
                /\ recipe = "_ringing" =>
                    ("jerk" \in ChangeParams(suggestion) <=> experience = "Advanced")

\* resin_peel and ringing at Intermediate: no change, and accel without jerk
C28_Witness ==
    /\ Suggested
    /\ experience = "Intermediate"
    /\ Len(planned.suggestions) = 2
    /\ predictions[1].issue_id = Chars("resin_peel")
    /\ predictions[2].issue_id = Chars("ringing")
    /\ planned.suggestions[1].changes = <<>>
    /\ ChangeParams(planned.suggestions[2]) = {"accel", "print_speed"}

----------------------------------------------------------------------------
(* Properties of the Clamp Engine on an unknown experience string *)

\* C30: clamp_to_machine accepts any experience string: a value outside
\* {Beginner, Intermediate, Advanced} is never rejected; the Intermediate
\* allow-list, factor 0.95 and tier note are applied, and experience_level
\* in the result echoes the unrecognised string unchanged. (The result is
\* that of tier Intermediate; values are compared after round(value, 3).)
C30_UnknownTierIsIntermediate ==
    (ClampCalled /\ experience \notin {"Beginner", "Intermediate", "Advanced"}) =>
        LET other == clamp_to_machine(machine, parameters, "Intermediate")
        IN  /\ applied.raised <=> other.raised
            /\ ~applied.raised =>
                /\ applied.experience_level = experience
                /\ applied = [other EXCEPT !.experience_level = experience]
                /\ applied.explanations[1] =
                    "Intermediate mode unlocks motion controls with moderate guard rails."
                /\ Elems(applied.hidden_parameters) =
                    Keys(parameters) \
                        {"nozzle_temp", "bed_temp", "print_speed", "travel_speed",
                         "accel", "fan_speed", "flow_rate", "retraction_distance"}
                /\ \A i \in DOMAIN applied.parameters :
                    LET value == applied.parameters[i][2]
                        bounds == _bounds_for(machine, applied.parameters[i][1])
                    IN  (IsNumber(value) /\ IsNumber(bounds[2])) =>
                            value.n <= Round3(MulPct(bounds[2].n, 95))

\* "Expert" with {nozzle_temp: 400.0, jerk: ...} on the scenario machine:
\* jerk hidden, nozzle_temp lowered to 300 x 0.95
C30_Witness ==
    /\ op = "clamp"
    /\ experience = "Expert"
    /\ machine = CoreXYMachine
    /\ ~applied.raised
    /\ applied.experience_level = "Expert"
    /\ applied.hidden_parameters = <<"jerk">>
    /\ Keys(applied.parameters) = {"nozzle_temp"}
    /\ Get(applied.parameters, "nozzle_temp").n = Whole(285)

----------------------------------------------------------------------------
(* Properties of the inference backends *)

\* the configured backend cannot be had: its package does not import, or its
\* model file is absent or does not load
Unavailable(e) ==
    \/ e.mode = "torch" /\ (~e.torch \/ e.model # "ok")
    \/ e.mode = "onnx" /\ (~e.onnxruntime \/ e.model # "ok")

\* C25: no backend is silently downgraded.  When the configured backend's
\* model is absent or fails to load, or the configured mode is not one the
\* component knows, its construction ends with an error; and a prediction is
\* never served from a backend other than the configured one.
C25_NoSilentDowngrade ==
    /\ op \in {"engine", "engine_predict"} =>
        ((Unavailable(env) \/ env.mode \notin {"torch", "stub"})
            => engine.error # "none")
    /\ op = "engine_predict" => backend = env.mode
    /\ op = "classifier" =>
        /\ (Unavailable(env) \/ env.mode \notin {"linear", "torch", "onnx"})
            => classifier.error # "none"
        /\ classifier.error = "none" => classifier.kind = env.mode

\* the part of C25 the pipeline's torch and onnx classifiers do keep: an
\* unavailable configured backend ends the construction with an error
C25_ClassifierFailsFast ==
    (op = "classifier" /\ Unavailable(env)) => classifier.error # "none"

----------------------------------------------------------------------------
(* Properties of the multipart analyze route *)

\* the route has produced its outcome, or has reached clamping
PastCleanup == outcome # "none" \/ route_pc = "clamp" \/ clamped

\* C26, as stated: once a request has created its temporary upload file, the
\* file is gone by the time the route produces its outcome, however the
\* pipeline ended, and clamping and the response come only after the deletion.
C26_DeletedOnEveryPath ==
    (tmp_path /\ PastCleanup) => tmp_file = "absent"

\* C26, amended: once a request has created its temporary upload file, the
\* route has called unlink on it by the time it produces its outcome, however
\* the pipeline ended, and before clamping and the response; the file is gone
\* then unless that unlink raised an OSError, which the route swallows.
C26_UnlinkedOnEveryPath ==
    (tmp_path /\ PastCleanup) =>
        /\ unlinked # "none"
        /\ tmp_file = "absent" \/ unlinked = "OSError"

\* the route ended with the 500 of a pipeline exception and the file is gone
C26_Witness ==
    /\ route_pc = "done"
    /\ tmp_path
    /\ pending = "Exception"
    /\ outcome = "500"
    /\ unlinked = "ok"
    /\ tmp_file = "absent"

====
